---- MODULE Spec2Model ----
(***************************************************************************)
(* A model of the DMX lighting controller's core: the DMXUniverse (channel *)
(* buffer, master dimmer, change listeners), the FadeEngine (interval      *)
(* driven linear interpolation) and the DMXDriver (serial connection and   *)
(* reconnection).                                                          *)
(*                                                                         *)
(* JavaScript numbers that reach the universe from outside are modelled in *)
(* HALVES: the integer h stands for the number h/2, so that Math.round is  *)
(* a real conversion; NaN is a distinguished value.  Values the program    *)
(* stores (bytes, the master dimmer) are plain integers.                   *)
(***************************************************************************)
EXTENDS Integers, Sequences, FiniteSets, TLC

\* ------------------------------------------------------------------ bounds
\* Number of channels of the universe (512 in the program, scaled down).
NumChannels == 2
\* Number of distinct change listeners that may subscribe.
NumListeners == 2

\* ------------------------------------------------------- JavaScript numbers
\* The value Math.round yields for undefined, NaN or a non-numeric string.
NaN == -1000000

Min(a, b) == IF a <= b THEN a ELSE b
Max(a, b) == IF a >= b THEN a ELSE b

\* Math.round on a number given in halves: floor(x + 0.5); NaN stays NaN.
MathRound(h) == IF h = NaN THEN NaN ELSE (h + 1) \div 2

\* Math.max(0, Math.min(255, x)): NaN propagates through both.
Clamp(x) == IF x = NaN THEN NaN ELSE Max(0, Min(255, x))

\* The conversion a Uint8Array element store applies: NaN becomes 0, any
\* other integer is taken modulo 256.
ToUint8(x) == IF x = NaN THEN 0 ELSE x % 256

\* ---------------------------------------------------------------- inputs
ChannelIndex == 0 .. (NumChannels - 1)

\* Values (in halves) a caller may pass: NaN, -1.5, 0.5, 127.5, 255.5 and
\* 350.
ValueArgs == {NaN, -3, 1, 255, 511, 700}

\* Channel numbers (in halves) a caller may pass: NaN, 0, 1, 1.5, the last
\* channel and the one after it.
ChannelArgs == {NaN, 0, 2, 3, 2 * NumChannels, 2 * NumChannels + 2}

\* Snapshots a caller may pass to applySnapshot: arrays of at most
\* NumChannels numbers (a short array leaves the missing entries undefined).
SnapshotValues == {NaN, 255, 511}
SnapshotArgs == UNION {[1 .. n -> SnapshotValues] : n \in 0 .. NumChannels}

\* Batches a caller may pass to setChannels: an object whose keys are channel
\* numbers (integers here, in and out of range) and whose values are numbers.
BatchKeys == {0, 1, NumChannels + 1}
BatchValues == {NaN, 700}
BatchArgs == UNION {[K -> BatchValues] : K \in SUBSET BatchKeys}

\* How many SerialPort objects may be alive at once.
MaxPorts == 2
\* How many async calls of the driver may be in progress at once.
MaxTasks == 2
\* How many times restart() is called.
MaxRestarts == 1
\* The count of consecutive failed reconnect attempts is kept up to here
\* (the backoff is at its cap from the fifth failure on).
MaxFails == 6

PortIds == 1 .. MaxPorts
TaskIds == 1 .. MaxTasks
TimerIds == {1, 2, 3}

ListenerIds == 1 .. NumListeners
\* Listeners whose callback throws when invoked.
ThrowingListeners == {1}

VARIABLES
  channels,      \* DMXUniverse.channels: the raw bytes, 0-indexed
  masterDimmer,  \* DMXUniverse.masterDimmer
  listeners,     \* DMXUniverse.listeners: a Set, in insertion order
  delivered,     \* per listener, the notifications the last call delivered
  last,          \* the operation the last step performed, and its argument
  activeFade,    \* FadeEngine.activeFade: an interval handle, 0 for null
  fadeResolve,   \* FadeEngine.fadeResolve: the promise it resolves, 0 for null
  intervals,     \* the live setInterval timers of fadeTo, with their closures
  pending,       \* the fadeTo promises not yet resolved
  now,           \* Date.now(), in ms
  nextId,        \* the next interval handle / promise to be created
  superseding,   \* the fades that were started while another was in flight
  serialPort,    \* DMXDriver.serialPort: a port object, 0 for null
  ports,         \* the SerialPort objects created by connect, and their state
  isConnected,   \* DMXDriver.isConnected
  portPath,      \* DMXDriver.portPath: "null" or the device path
  reconnectTimer,  \* DMXDriver.reconnectTimer: a timeout handle, 0 for null
  reconnectDelay,  \* DMXDriver.reconnectDelay, in ms
  isShuttingDown,  \* DMXDriver.isShuttingDown
  refreshInterval, \* whether the 40 Hz refresh interval is running
  timers,        \* the pending setTimeout timers of startReconnection
  tasks,         \* the async calls of the driver that are awaiting something
  status,        \* the status last passed to the status listeners
  fails,         \* consecutive failed reconnect attempts so far
  calls,         \* how often initialize() and restart() were called
  throttleTimer, \* SocketUIServer.throttleTimer: a timeout handle, 0 for null
  throttleTimers,  \* the pending setTimeout timers of the universe listener
  pendingUpdate, \* SocketUIServer.pendingUpdate
  uiClosed,      \* whether SocketUIServer.shutdown() was called
  emitted,       \* the last dmx:state broadcast of emitDMXState
  unsent,        \* the universe changes no dmx:state broadcast has covered yet
  fixtures,      \* the fixture store: per fixture id, its activeMode
  recallTasks,   \* the recall handlers awaiting fadeTo's promise
  presets,       \* the preset store: PresetManager's presets array
  blackedOut     \* history: the last command handled was an instant blackout

uniVars == <<channels, masterDimmer, listeners>>
fadeVars ==
  <<activeFade, fadeResolve, intervals, pending, now, nextId, superseding>>
drvVars ==
  <<serialPort, ports, isConnected, portPath, reconnectTimer, reconnectDelay,
    isShuttingDown, refreshInterval, timers, tasks, status, fails, calls>>
throttleVars == <<throttleTimer, throttleTimers, pendingUpdate, unsent>>
srvVars ==
  <<throttleVars, uiClosed, emitted, fixtures, recallTasks, presets,
    blackedOut>>
otherVars == <<fadeVars, drvVars, srvVars>>
vars ==
  <<channels, masterDimmer, listeners, delivered, last, fadeVars, drvVars,
    srvVars>>

\* ----------------------------------------------------------- DMXUniverse
NoDeliveries == [l \in ListenerIds |-> 0]

InSeq(s, x) == \E k \in 1 .. Len(s) : s[k] = x

\* notifyListeners without the try/catch: the first throwing listener ends
\* the iteration.
notifyListenersNoCatch(ls) ==
  [l \in ListenerIds |->
     IF \E k \in 1 .. Len(ls) :
          /\ ls[k] = l
          /\ \A j \in 1 .. (k - 1) : ls[j] \notin ThrowingListeners
     THEN 1 ELSE 0]

\* notifyListeners: every subscribed listener is invoked once, a throwing
\* listener is caught and logged.
notifyListeners(ls) ==
  [l \in ListenerIds |-> IF InSeq(ls, l) THEN 1 ELSE 0]

\* getState: the effective bytes, round(channels[i] * (master / 255)) stored
\* into a Uint8Array.
getState ==
  [i \in ChannelIndex |->
     ToUint8(IF masterDimmer = NaN THEN NaN
             ELSE (2 * channels[i] * masterDimmer + 255) \div 510)]

getRawState == channels

getMasterDimmer == masterDimmer

\* The element store channels[channel - 1] = clamped of setChannel and
\* setChannels: an index that is not an integer (1.5, NaN) stores nothing.
StoreChannel(chs, channel, value) ==
  IF channel # NaN /\ channel % 2 = 0 /\ (channel \div 2) - 1 \in ChannelIndex
  THEN [chs EXCEPT ![(channel \div 2) - 1] = ToUint8(Clamp(MathRound(value)))]
  ELSE chs

\* The guard of setChannel: channel < 1 || channel > 512 (false for NaN).
InvalidChannel(channel) ==
  channel # NaN /\ (channel < 2 \/ channel > 2 * NumChannels)

setChannel(channel, value) ==
  /\ IF InvalidChannel(channel)
     THEN /\ channels' = channels
          /\ delivered' = NoDeliveries
     ELSE /\ channels' = StoreChannel(channels, channel, value)
          /\ delivered' = notifyListeners(listeners)
  /\ UNCHANGED <<masterDimmer, listeners>>

\* setChannels: every entry whose key is in 1..512 is stored; the keys of a
\* batch are distinct, so the order of the entries does not matter.
setChannelsStore(chs, values) ==
  [i \in ChannelIndex |->
     IF (i + 1) \in DOMAIN values
     THEN ToUint8(Clamp(MathRound(values[i + 1])))
     ELSE chs[i]]

setChannels(values) ==
  /\ channels' = setChannelsStore(channels, values)
  /\ delivered' = notifyListeners(listeners)
  /\ UNCHANGED <<masterDimmer, listeners>>

setMasterDimmer(value) ==
  /\ masterDimmer' = Clamp(MathRound(value))
  /\ delivered' = notifyListeners(listeners)
  /\ UNCHANGED <<channels, listeners>>

\* applySnapshot's loop: snapshot[i] || 0 (undefined, NaN and 0 give 0),
\* rounded, clamped and stored.
applySnapshotStore(snapshot) ==
  [i \in ChannelIndex |->
     LET x == IF i + 1 \in DOMAIN snapshot /\ snapshot[i + 1] # NaN
              THEN snapshot[i + 1] ELSE 0
     IN ToUint8(Clamp(MathRound(x)))]

applySnapshot(snapshot) ==
  /\ channels' = applySnapshotStore(snapshot)
  /\ delivered' = notifyListeners(listeners)
  /\ UNCHANGED <<masterDimmer, listeners>>

blackout ==
  /\ channels' = [i \in ChannelIndex |-> 0]
  /\ delivered' = notifyListeners(listeners)
  /\ UNCHANGED <<masterDimmer, listeners>>

onChange(l) ==
  /\ listeners' = IF InSeq(listeners, l) THEN listeners ELSE Append(listeners, l)
  /\ delivered' = NoDeliveries
  /\ UNCHANGED <<channels, masterDimmer>>

offChange(l) ==
  /\ listeners' = SelectSeq(listeners, LAMBDA x : x # l)
  /\ delivered' = NoDeliveries
  /\ UNCHANGED <<channels, masterDimmer>>

InitUniverse ==
  /\ channels = [i \in ChannelIndex |-> 0]
  /\ masterDimmer = 255
  /\ delivered = NoDeliveries

InitFade ==
  /\ activeFade = 0
  /\ fadeResolve = 0
  /\ intervals = {}
  /\ pending = {}
  /\ now = 0
  /\ nextId = 1
  /\ superseding = {}

InitDriver ==
  /\ serialPort = 0
  /\ ports = [p \in PortIds |-> "none"]
  /\ isConnected = FALSE
  /\ portPath = "null"
  /\ reconnectTimer = 0
  /\ reconnectDelay = 1000
  /\ isShuttingDown = FALSE
  /\ refreshInterval = FALSE
  /\ timers = {}
  /\ tasks = {}
  /\ status = [connected |-> FALSE, port |-> "null"]
  /\ fails = 0
  /\ calls = [initialize |-> 0, restart |-> 0]

\* No dmx:state broadcast yet.
NoBroadcast ==
  [at |-> -1, prevAt |-> -1, since |-> -1, changes |-> 0,
   channels |-> [i \in ChannelIndex |-> 0], master |-> 255]

NothingUnsent == [since |-> -1, changes |-> 0]

\* The ids (uuids) created fixtures get, "null" for no active mode, and the
\* store's fixtures array when it is empty.
FixtureIds == {"F"}
NoMode == "null"
NoFixtures == <<>>

InitThrottle ==
  /\ throttleTimer = 0
  /\ throttleTimers = {}
  /\ pendingUpdate = FALSE
  /\ uiClosed = FALSE
  /\ emitted = NoBroadcast
  /\ unsent = NothingUnsent
  /\ recallTasks = {}
  /\ presets = <<>>
  /\ blackedOut = FALSE

\* The universe, the fade engine and the driver after construction, with no
\* server and no fixture.
Init ==
  /\ InitUniverse
  /\ listeners = <<>>
  /\ last = [op |-> "constructor", arg |-> 0]
  /\ InitFade
  /\ InitDriver
  /\ InitThrottle
  /\ fixtures = NoFixtures

Did(op, arg) == last' = [op |-> op, arg |-> arg]

SetChannel ==
  \E c \in ChannelArgs, v \in ValueArgs :
    setChannel(c, v) /\ Did("setChannel", c) /\ UNCHANGED otherVars
SetChannels ==
  \E b \in BatchArgs :
    setChannels(b) /\ Did("setChannels", 0) /\ UNCHANGED otherVars
SetMasterDimmer ==
  \E v \in ValueArgs :
    setMasterDimmer(v) /\ Did("setMasterDimmer", 0) /\ UNCHANGED otherVars
ApplySnapshot ==
  \E s \in SnapshotArgs :
    applySnapshot(s) /\ Did("applySnapshot", 0) /\ UNCHANGED otherVars
Blackout == blackout /\ Did("blackout", 0) /\ UNCHANGED otherVars
OnChange ==
  \E l \in ListenerIds :
    onChange(l) /\ Did("onChange", 0) /\ UNCHANGED otherVars
OffChange ==
  \E l \in ListenerIds :
    offChange(l) /\ Did("offChange", 0) /\ UNCHANGED otherVars

NextUniverse ==
  \/ SetChannel
  \/ SetChannels
  \/ SetMasterDimmer
  \/ ApplySnapshot
  \/ Blackout
  \/ OnChange
  \/ OffChange

SpecUniverse == Init /\ [][NextUniverse]_vars

\* ------------------------------------------------------------ FadeEngine
FADE_STEP_INTERVAL == 25

\* How many times the clock advances.
MaxAdvances == 3
\* What the clock advances by between two looks at it: a timer period, or a
\* period and 10 ms of lateness.
ClockSteps == {FADE_STEP_INTERVAL, FADE_STEP_INTERVAL + 10}
\* How many timed fades are started.
MaxFades == 2

\* A snapshot (a byte per channel) as the number[] the program passes around.
AsNumbers(f) == [k \in 1 .. NumChannels |-> 2 * f[k - 1]]

\* Targets of a fade: preset channel arrays.
Zeros == [i \in ChannelIndex |-> 0]
FadeTargets ==
  { AsNumbers([i \in ChannelIndex |-> IF i = 0 THEN 255 ELSE 0]),
    AsNumbers([i \in ChannelIndex |-> 100 + i]) }

\* Durations (ms) a fade may be asked for.
DurationArgs == {0, 60}
\* Both servers call fadeToBlackout only with a fadeTime above 0.
BlackoutDurationArgs == {100}

NoInterval ==
  [id |-> 0, startChannels |-> Zeros, startTime |-> 0,
   targetChannels |-> AsNumbers(Zeros), durationMs |-> 0, due |-> 0]

\* array[i] || 0 on a number[] in halves.
OrZero(arr, i) ==
  IF i + 1 \in DOMAIN arr /\ arr[i + 1] # NaN THEN arr[i + 1] ELSE 0

\* The tick's interpolation without the Math.min(1, ...) on progress.
InterpolateUnbounded(startChannels, targetChannels, elapsed, durationMs) ==
  [i \in ChannelIndex |->
     LET start == startChannels[i]
         end == OrZero(targetChannels, i)
     IN Clamp((2 * start * durationMs + (end - 2 * start) * elapsed + durationMs)
                \div (2 * durationMs))]

\* The tick's interpolation: progress = min(1, elapsed / durationMs),
\* interpolated[i] = clamp(round(start + (end - start) * progress)), computed
\* exactly: with p = min(elapsed, durationMs) the value is
\* (2*start*durationMs + (2*end - 2*start) * p) / (2*durationMs).
Interpolate(startChannels, targetChannels, elapsed, durationMs) ==
  [i \in ChannelIndex |->
     LET start == startChannels[i]
         end == OrZero(targetChannels, i)
         p == Min(elapsed, durationMs)
     IN Clamp((2 * start * durationMs + (end - 2 * start) * p + durationMs)
                \div (2 * durationMs))]

\* The engine's fields and timers after a cancelFade that forgets to resolve
\* the pending promise.
cancelFadeNoResolve(af, fr, ivs, pend) ==
  [activeFade |-> 0, fadeResolve |-> 0,
   intervals |-> {iv \in ivs : iv.id # af}, pending |-> pend]

\* The engine's fields and timers after a cancelFade that forgets
\* clearInterval.
cancelFadeNoClear(af, fr, ivs, pend) ==
  [activeFade |-> 0, fadeResolve |-> 0,
   intervals |-> ivs, pending |-> pend \ {fr}]

\* A fadeTo that does not cancel the fade in flight.
cancelFadeSkipped(af, fr, ivs, pend) ==
  [activeFade |-> af, fadeResolve |-> fr, intervals |-> ivs, pending |-> pend]

\* cancelFade (and completeFade, which has the same body): clearInterval on
\* activeFade, resolve fadeResolve, null both.
cancelFade(af, fr, ivs, pend) ==
  [activeFade |-> 0, fadeResolve |-> 0,
   intervals |-> {iv \in ivs : iv.id # af}, pending |-> pend \ {fr}]

completeFade(af, fr, ivs, pend) == cancelFade(af, fr, ivs, pend)

\* The interval in flight, for the record of what a step did.
InFlight ==
  IF \E iv \in intervals : iv.id = activeFade
  THEN CHOOSE iv \in intervals : iv.id = activeFade
  ELSE NoInterval

\* fadeTo(targetChannels, durationMs)
fadeTo(targetChannels, durationMs) ==
  LET c == cancelFade(activeFade, fadeResolve, intervals, pending) IN
  IF durationMs <= 0
  THEN /\ channels' = applySnapshotStore(targetChannels)
       /\ delivered' = notifyListeners(listeners)
       /\ activeFade' = c.activeFade
       /\ fadeResolve' = c.fadeResolve
       /\ intervals' = c.intervals
       /\ pending' = c.pending
       /\ UNCHANGED <<masterDimmer, listeners, now, nextId, superseding>>
  ELSE /\ nextId <= MaxFades
       /\ fadeResolve' = nextId
       /\ activeFade' = nextId
       /\ pending' = c.pending \cup {nextId}
       /\ intervals' = c.intervals \cup
            {[id |-> nextId, startChannels |-> channels, startTime |-> now,
              targetChannels |-> targetChannels, durationMs |-> durationMs,
              due |-> now + FADE_STEP_INTERVAL]}
       /\ nextId' = nextId + 1
       /\ superseding' =
            IF intervals # {} THEN superseding \cup {nextId} ELSE superseding
       /\ delivered' = NoDeliveries
       /\ UNCHANGED <<channels, masterDimmer, listeners, now>>

FadeTo ==
  \E t \in FadeTargets, d \in DurationArgs :
    /\ fadeTo(t, d)
    /\ Did("fadeTo", [InFlight EXCEPT !.due = d])
    /\ UNCHANGED <<drvVars, srvVars>>

\* fadeToBlackout(durationMs) = fadeTo(new Array(512).fill(0), durationMs)
FadeToBlackout ==
  \E d \in BlackoutDurationArgs :
    /\ fadeTo(AsNumbers(Zeros), d)
    /\ Did("fadeToBlackout", [InFlight EXCEPT !.due = d])
    /\ UNCHANGED <<drvVars, srvVars>>

\* cancelFade(), called from outside the engine.
CancelFade ==
  LET c == cancelFade(activeFade, fadeResolve, intervals, pending) IN
  /\ activeFade' = c.activeFade
  /\ fadeResolve' = c.fadeResolve
  /\ intervals' = c.intervals
  /\ pending' = c.pending
  /\ delivered' = NoDeliveries
  /\ Did("cancelFade", [fade |-> InFlight, raw |-> channels])
  /\ UNCHANGED <<drvVars, srvVars>>
  /\ UNCHANGED <<uniVars, now, nextId, superseding>>

\* One run of the setInterval callback of fadeTo (tick), for the live
\* interval iv.
tick(iv) ==
  /\ now >= iv.due
  /\ LET elapsed == now - iv.startTime
         interpolated ==
           Interpolate(iv.startChannels, iv.targetChannels, elapsed, iv.durationMs)
         rest == intervals \ {iv}
         c == completeFade(activeFade, fadeResolve, intervals, pending)
     IN /\ channels' = applySnapshotStore(AsNumbers(interpolated))
        /\ delivered' = notifyListeners(listeners)
        /\ IF elapsed >= iv.durationMs
           THEN /\ activeFade' = c.activeFade
                /\ fadeResolve' = c.fadeResolve
                /\ intervals' = c.intervals
                /\ pending' = c.pending
                /\ Did("fadeComplete", [iv EXCEPT !.due = elapsed])
           ELSE /\ intervals' = rest \cup {[iv EXCEPT !.due = now + FADE_STEP_INTERVAL]}
                /\ Did("fadeTick", [iv EXCEPT !.due = elapsed])
                /\ UNCHANGED <<activeFade, fadeResolve, pending>>
  /\ UNCHANGED <<masterDimmer, listeners, now, nextId, superseding>>

FadeTick ==
  \E iv \in intervals : tick(iv) /\ UNCHANGED <<drvVars, srvVars>>

\* Time passes, one timer period at a time, or a period and some lateness.
\* A callback that is due need not run before time passes again.
Advance ==
  \E dt \in ClockSteps :
    /\ now < MaxAdvances * FADE_STEP_INTERVAL
    /\ now' = now + dt
    /\ delivered' = NoDeliveries
    /\ Did("advance", 0)
    /\ UNCHANGED <<drvVars, srvVars>>
    /\ UNCHANGED <<uniVars, activeFade, fadeResolve, intervals, pending,
                   nextId, superseding>>

\* The instant branch of a preset recall (effective fadeTime 0) in both
\* servers: universe.applySnapshot(preset.channels), nothing else.
RecallInstant ==
  \E t \in FadeTargets :
    /\ applySnapshot(t)
    /\ Did("recallInstant", InFlight)
    /\ UNCHANGED <<drvVars, srvVars>>
    /\ UNCHANGED <<activeFade, fadeResolve, intervals, pending, now, nextId,
                   superseding>>

NextFade ==
  \/ FadeTo
  \/ FadeToBlackout
  \/ CancelFade
  \/ FadeTick
  \/ Advance
  \/ RecallInstant

SpecFade == Init /\ [][NextFade]_vars

\* ------------------------------------------------------------- DMXDriver
maxReconnectDelay == 30000

NoPath == "null"
\* The path detectDevice returns when it finds the adapter.
DevicePath == "usbserial"

\* The smallest timeout handle that is neither pending nor still held in
\* reconnectTimer.
NewTimerId(rt, tms) ==
  LET free == {id \in TimerIds : id # rt /\ \A t \in tms : t.id # id}
  IN CHOOSE id \in free : \A o \in free : id <= o

\* startReconnection: nothing when shutting down; otherwise clearTimeout on
\* the held handle and a new setTimeout of reconnectDelay ms.  Each timer
\* notes the count of failed attempts at the time it was set, and how many
\* restart() calls had been made by then.
startReconnection(sd, rt, tms, delay, fl) ==
  IF sd
  THEN [reconnectTimer |-> rt, timers |-> tms]
  ELSE LET kept == {t \in tms : t.id # rt}
           id == NewTimerId(rt, kept)
       IN [reconnectTimer |-> id,
           timers |-> kept \cup {[id |-> id, delay |-> delay, fails |-> fl,
                                restarts |-> calls.restart]}]

\* A SerialPort object connect may create: one that does not exist, or a
\* closed one nothing refers to any more.
UnusedPorts ==
  {p \in PortIds : /\ ports[p] \in {"none", "closed"}
                   /\ serialPort # p
                   /\ \A t \in tasks : t.port # p}
NewPortId == CHOOSE p \in UnusedPorts : \A o \in UnusedPorts : p <= o

UnusedTasks == {i \in TaskIds : \A t \in tasks : t.id # i}
NewTaskId == CHOOSE i \in UnusedTasks : \A o \in UnusedTasks : i <= o

\* serialPort && serialPort.isOpen
PortIsOpen == serialPort # 0 /\ ports[serialPort] = "open"

Bump(n) == Min(n + 1, MaxFails)

\* initialize(), up to its await of detectDevice().
Initialize ==
  /\ calls.initialize = 0
  /\ UnusedTasks # {}
  /\ calls' = [calls EXCEPT !.initialize = 1]
  /\ tasks' = tasks \cup {[id |-> NewTaskId, kind |-> "initialize", pc |-> "detect", port |-> 0]}
  /\ Did("initialize", "")
  /\ delivered' = NoDeliveries
  /\ UNCHANGED <<uniVars, fadeVars, srvVars, serialPort, ports, isConnected, portPath,
                 reconnectTimer, reconnectDelay, isShuttingDown,
                 refreshInterval, timers, status, fails>>

\* detectDevice() returns a path to the caller awaiting it, which goes on to
\* connect(path): a new SerialPort replaces this.serialPort and is opened.
DetectFound ==
  \E t \in tasks :
    /\ t.pc = "detect"
    /\ UnusedPorts # {}
    /\ ports' = [ports EXCEPT ![NewPortId] = "opening"]
    /\ serialPort' = NewPortId
    /\ tasks' = (tasks \ {t}) \cup {[t EXCEPT !.pc = "opening", !.port = NewPortId]}
    /\ Did("scanFound", t.kind)
    /\ delivered' = NoDeliveries
    /\ UNCHANGED <<uniVars, fadeVars, srvVars, isConnected, portPath, reconnectTimer,
                   reconnectDelay, isShuttingDown, refreshInterval, timers,
                   status, fails, calls>>

\* detectDevice() returns null to the caller awaiting it: initialize() and
\* restart() emit the status (initialize() then starts the refresh loop); the
\* reconnect callback doubles the delay and calls startReconnection().
DetectNone ==
  \E t \in tasks :
    /\ t.pc = "detect"
    /\ tasks' = tasks \ {t}
    /\ IF t.kind = "reconnect"
       THEN LET d == Min(reconnectDelay * 2, maxReconnectDelay)
                r == startReconnection(isShuttingDown, reconnectTimer, timers, d, Bump(fails))
            IN /\ reconnectDelay' = d
               /\ fails' = Bump(fails)
               /\ reconnectTimer' = r.reconnectTimer
               /\ timers' = r.timers
               /\ UNCHANGED <<status, refreshInterval>>
       ELSE /\ status' = [connected |-> isConnected, port |-> portPath]
            /\ refreshInterval' = (refreshInterval \/ t.kind = "initialize")
            /\ UNCHANGED <<reconnectDelay, fails, reconnectTimer, timers>>
    /\ Did("scanNoDevice", t.kind)
    /\ delivered' = NoDeliveries
    /\ UNCHANGED <<uniVars, fadeVars, srvVars, serialPort, ports, isConnected, portPath,
                   isShuttingDown, calls>>

\* The callers awaiting connect() on port p, and whether initialize() is one.
Awaiting(p) == {t \in tasks : t.pc = "opening" /\ t.port = p}
InitializeAwaits(p) == \E t \in Awaiting(p) : t.kind = "initialize"
ReconnectAwaits(p) == \E t \in Awaiting(p) : t.kind = "reconnect"

\* The port's 'open' event.  The device is opened with an exclusive lock, so
\* no other port object holds it.
OpenSucceeds ==
  \E p \in PortIds :
    /\ ports[p] = "opening"
    /\ \A o \in PortIds : ports[o] \notin {"open", "closing"}
    /\ ports' = [ports EXCEPT ![p] = "open"]
    /\ isConnected' = TRUE
    /\ portPath' = DevicePath
    /\ reconnectDelay' = 1000
    /\ fails' = 0
    /\ status' = [connected |-> TRUE, port |-> DevicePath]
    /\ tasks' = tasks \ Awaiting(p)
    /\ refreshInterval' = (refreshInterval \/ InitializeAwaits(p))
    /\ Did("openSucceeded", "")
    /\ delivered' = NoDeliveries
    /\ UNCHANGED <<uniVars, fadeVars, srvVars, serialPort, reconnectTimer,
                   isShuttingDown, timers, calls>>

\* The callback of serialPort.open with an error.
OpenFails ==
  \E p \in PortIds :
    /\ ports[p] = "opening"
    /\ ports' = [ports EXCEPT ![p] = "closed"]
    /\ serialPort' = 0
    /\ LET fl == IF ReconnectAwaits(p) THEN Bump(fails) ELSE fails
           r == startReconnection(isShuttingDown, reconnectTimer, timers,
                                  reconnectDelay, fl)
       IN /\ fails' = fl
          /\ reconnectTimer' = r.reconnectTimer
          /\ timers' = r.timers
    /\ tasks' = tasks \ Awaiting(p)
    /\ refreshInterval' = (refreshInterval \/ InitializeAwaits(p))
    /\ Did("openFailed", IF ReconnectAwaits(p) THEN "reconnect" ELSE "first")
    /\ delivered' = NoDeliveries
    /\ UNCHANGED <<uniVars, fadeVars, srvVars, isConnected, portPath, reconnectDelay,
                   isShuttingDown, status, calls>>

\* The handler of the port's 'close' event: the fields after it, given the
\* fields before it.
onClose(sd, conn, path, sp, st, rt, tms, delay, fl) ==
  IF sd
  THEN [isConnected |-> conn, portPath |-> path, serialPort |-> sp,
        status |-> st, reconnectTimer |-> rt, timers |-> tms]
  ELSE LET r == startReconnection(sd, rt, tms, delay, fl)
       IN [isConnected |-> FALSE, portPath |-> NoPath, serialPort |-> 0,
           status |-> [connected |-> FALSE, port |-> NoPath],
           reconnectTimer |-> r.reconnectTimer, timers |-> r.timers]

\* An open port closes by itself (the adapter is unplugged): its 'close'
\* event.
PortCloses ==
  \E p \in PortIds :
    /\ ports[p] = "open"
    /\ ports' = [ports EXCEPT ![p] = "closed"]
    /\ LET c == onClose(isShuttingDown, isConnected, portPath, serialPort,
                        status, reconnectTimer, timers, reconnectDelay, fails)
       IN /\ isConnected' = c.isConnected
          /\ portPath' = c.portPath
          /\ serialPort' = c.serialPort
          /\ status' = c.status
          /\ reconnectTimer' = c.reconnectTimer
          /\ timers' = c.timers
    /\ Did("portClosed", IF isConnected THEN "connected" ELSE "disconnected")
    /\ delivered' = NoDeliveries
    /\ UNCHANGED <<uniVars, fadeVars, srvVars, reconnectDelay, isShuttingDown,
                   refreshInterval, tasks, fails, calls>>

\* The port's 'error' event: the handler logs the error.
PortError ==
  \E p \in PortIds :
    /\ ports[p] = "open"
    /\ Did("portError", IF isConnected THEN "connected" ELSE "disconnected")
    /\ delivered' = NoDeliveries
    /\ UNCHANGED <<uniVars, fadeVars, srvVars, drvVars>>

\* Whether initialize() has returned: the tray menu, which calls restart()
\* and shutdown(), is created after the await of initialize().
InitializeReturned ==
  calls.initialize = 1 /\ \A t \in tasks : t.kind # "initialize"

\* restart(), up to its first await that waits for something: closePort()
\* either starts closing the open port, or clears the fields at once, and then
\* the delay is reset and the scan starts.
Restart ==
  /\ InitializeReturned
  /\ calls.restart < MaxRestarts
  /\ UnusedTasks # {}
  /\ calls' = [calls EXCEPT !.restart = @ + 1]
  /\ IF PortIsOpen
     THEN /\ ports' = [ports EXCEPT ![serialPort] = "closing"]
          /\ tasks' = tasks \cup {[id |-> NewTaskId, kind |-> "restart",
                                    pc |-> "closing", port |-> serialPort]}
          /\ UNCHANGED <<serialPort, isConnected, portPath, reconnectDelay, fails>>
     ELSE /\ serialPort' = 0
          /\ isConnected' = FALSE
          /\ portPath' = NoPath
          /\ reconnectDelay' = 1000
          /\ fails' = 0
          /\ tasks' = tasks \cup {[id |-> NewTaskId, kind |-> "restart",
                                    pc |-> "detect", port |-> 0]}
          /\ UNCHANGED ports
  /\ Did("restart", "")
  /\ delivered' = NoDeliveries
  /\ UNCHANGED <<uniVars, fadeVars, srvVars, reconnectTimer, isShuttingDown,
                 refreshInterval, timers, status>>

\* serialPort.close() of closePort() completes: the port's 'close' event,
\* then closePort's callback clears the fields and resolves; a restart()
\* awaiting it resets the delay and starts its scan.
CloseCompletes ==
  \E p \in PortIds :
    /\ ports[p] = "closing"
    /\ ports' = [ports EXCEPT ![p] = "closed"]
    /\ LET c == onClose(isShuttingDown, isConnected, portPath, serialPort,
                        status, reconnectTimer, timers, reconnectDelay, fails)
           waiting == {t \in tasks : t.pc = "closing" /\ t.port = p}
       IN /\ isConnected' = FALSE
          /\ portPath' = NoPath
          /\ serialPort' = 0
          /\ status' = c.status
          /\ reconnectTimer' = c.reconnectTimer
          /\ timers' = c.timers
          /\ tasks' = (tasks \ waiting) \cup
                        {[t EXCEPT !.pc = "detect", !.port = 0] : t \in waiting}
          /\ reconnectDelay' = IF waiting # {} THEN 1000 ELSE reconnectDelay
          /\ fails' = IF waiting # {} THEN 0 ELSE fails
    /\ Did("closeCompleted", "")
    /\ delivered' = NoDeliveries
    /\ UNCHANGED <<uniVars, fadeVars, srvVars, isShuttingDown, refreshInterval, calls>>

\* shutdown(), with the start of its closePort().
Shutdown ==
  /\ InitializeReturned
  /\ ~isShuttingDown
  /\ isShuttingDown' = TRUE
  /\ timers' = {t \in timers : t.id # reconnectTimer}
  /\ reconnectTimer' = 0
  /\ refreshInterval' = FALSE
  /\ IF PortIsOpen
     THEN /\ ports' = [ports EXCEPT ![serialPort] = "closing"]
          /\ UNCHANGED <<serialPort, isConnected, portPath>>
     ELSE /\ serialPort' = 0
          /\ isConnected' = FALSE
          /\ portPath' = NoPath
          /\ UNCHANGED ports
  /\ Did("shutdown", "")
  /\ delivered' = NoDeliveries
  /\ UNCHANGED <<uniVars, fadeVars, srvVars, reconnectDelay, tasks, status, fails, calls>>

\* A reconnect timer fires: its callback starts with await detectDevice().
TimerFires ==
  \E t \in timers :
    /\ UnusedTasks # {}
    /\ timers' = timers \ {t}
    /\ tasks' = tasks \cup {[id |-> NewTaskId, kind |-> "reconnect",
                              pc |-> "detect", port |-> 0]}
    /\ Did("timerFired", [restarts |-> t.restarts])
    /\ delivered' = NoDeliveries
    /\ UNCHANGED <<uniVars, fadeVars, srvVars, serialPort, ports, isConnected, portPath,
                   reconnectTimer, reconnectDelay, isShuttingDown,
                   refreshInterval, status, fails, calls>>

\* The Enttec DMX USB Pro framing bytes.
DMX_PRO_START_MSG == 126
DMX_PRO_END_MSG == 231
DMX_PRO_SEND_LABEL == 6

\* buildDMXPacket with the two length bytes in the other order.
buildDMXPacketBigEndian(chs) ==
  LET dataLength == Len(chs) + 1
      size == dataLength + 5
  IN [k \in 1 .. size |->
        IF k = size THEN DMX_PRO_END_MSG
        ELSE IF k = 1 THEN DMX_PRO_START_MSG
        ELSE IF k = 2 THEN DMX_PRO_SEND_LABEL
        ELSE IF k = 3 THEN (dataLength \div 256) % 256
        ELSE IF k = 4 THEN dataLength % 256
        ELSE IF k = 5 THEN 0
        ELSE chs[k - 5]]

\* buildDMXPacket(channels), the packet as a sequence of bytes: packet[k] of
\* the code is element k + 1.
buildDMXPacket(chs) ==
  LET dataLength == Len(chs) + 1
      size == dataLength + 5
  IN [k \in 1 .. size |->
        IF k = size THEN DMX_PRO_END_MSG
        ELSE IF k = 1 THEN DMX_PRO_START_MSG
        ELSE IF k = 2 THEN DMX_PRO_SEND_LABEL
        ELSE IF k = 3 THEN dataLength % 256
        ELSE IF k = 4 THEN (dataLength \div 256) % 256
        ELSE IF k = 5 THEN 0
        ELSE chs[k - 5]]

\* getState() as the Uint8Array handed to buildDMXPacket.
StateBytes == [k \in 1 .. NumChannels |-> getState[k - 1]]

\* One tick of the 40 Hz refresh interval: when connected with an open port,
\* the packet of the effective state is written to the port.
RefreshTick ==
  /\ refreshInterval
  /\ Did("refreshTick",
         [connected |-> isConnected,
          written |-> IF isConnected /\ PortIsOpen
                      THEN <<buildDMXPacket(StateBytes)>> ELSE <<>>])
  /\ delivered' = NoDeliveries
  /\ UNCHANGED <<uniVars, fadeVars, srvVars, drvVars>>

\* The callback of serialPort.write with an error: it is logged.
WriteError ==
  /\ last.op = "refreshTick"
  /\ last.arg.written # <<>>
  /\ Did("writeError", [connected |-> isConnected, port |-> portPath,
                        serialPort |-> serialPort])
  /\ delivered' = NoDeliveries
  /\ UNCHANGED <<uniVars, fadeVars, srvVars, drvVars>>

NextDriver ==
  \/ Initialize
  \/ DetectFound
  \/ DetectNone
  \/ OpenSucceeds
  \/ OpenFails
  \/ PortCloses
  \/ PortError
  \/ Restart
  \/ CloseCompletes
  \/ Shutdown
  \/ TimerFires
  \/ RefreshTick
  \/ WriteError

SpecDriver == Init /\ [][NextDriver]_vars

\* The size of the Uint8Array getState() returns.
UniverseSize == 512

\* The 512-byte arrays handed to buildDMXPacket: byte k is step * k + offset.
PacketInputs ==
  {[k \in 1 .. UniverseSize |-> (step * k + offset) % 256] :
     step \in {0, 1, 7}, offset \in 0 .. 39}

\* buildDMXPacket on its own: the state after construction, with an array
\* to encode.
InitPacket ==
  /\ InitUniverse
  /\ listeners = <<>>
  /\ last \in {[op |-> "getState", arg |-> chs] : chs \in PacketInputs}
  /\ InitFade
  /\ InitDriver
  /\ InitThrottle
  /\ fixtures = NoFixtures

BuildDMXPacket ==
  /\ last.op = "getState"
  /\ Did("buildDMXPacket",
         [channels |-> last.arg, packet |-> buildDMXPacket(last.arg)])
  /\ UNCHANGED <<uniVars, delivered, fadeVars, drvVars, srvVars>>

NextPacket == BuildDMXPacket

SpecPacket == InitPacket /\ [][NextPacket]_vars

\* The driver under the scheduling of the event loop: a started scan
\* returns, a started open or close completes, a pending timer fires.
DriverFairness ==
  /\ WF_vars(DetectFound \/ DetectNone)
  /\ WF_vars(OpenSucceeds \/ OpenFails)
  /\ WF_vars(CloseCompletes)
  /\ WF_vars(TimerFires)

SpecDriverLive == SpecDriver /\ DriverFairness

\* --------------------------------------------------------- SocketUIServer
UI_THROTTLE_MS == 33

\* The listener the SocketUIServer constructor registers with the universe.
UIServerListener == 2

\* The state after the SocketUIServer was constructed on a new universe.
InitUI ==
  /\ InitUniverse
  /\ listeners = <<UIServerListener>>
  /\ last = [op |-> "constructor", arg |-> 0]
  /\ InitFade
  /\ InitDriver
  /\ InitThrottle
  /\ fixtures = NoFixtures

\* What the live clients send in dmx:set-channel and dmx:master (in halves).
UIChannelArgs == {0, 2}
UIValueArgs == {1, 511}

\* A handle for a new throttle timer.
NewThrottleId ==
  CHOOSE id \in 1 .. Cardinality(throttleTimers) + 1 :
    \A t \in throttleTimers : t.id # id

\* One more change that no broadcast has covered (counted up to 2).
NoteChange ==
  [since |-> IF unsent.changes = 0 THEN now ELSE unsent.since,
   changes |-> Min(unsent.changes + 1, 2)]

\* The universe listener without its test of throttleTimer: every change
\* sets a timer.
onUniverseChangeNoGuard(notified) ==
  IF notified
  THEN /\ pendingUpdate' = TRUE
       /\ unsent' = NoteChange
       /\ throttleTimer' = NewThrottleId
       /\ throttleTimers' = throttleTimers \cup
            {[id |-> NewThrottleId, due |-> now + UI_THROTTLE_MS]}
  ELSE UNCHANGED throttleVars

\* The universe listener without pendingUpdate = true.
onUniverseChangeNoFlag(notified) ==
  IF notified
  THEN /\ pendingUpdate' = pendingUpdate
       /\ unsent' = NoteChange
       /\ IF throttleTimer = 0
          THEN /\ throttleTimer' = NewThrottleId
               /\ throttleTimers' = throttleTimers \cup
                    {[id |-> NewThrottleId, due |-> now + UI_THROTTLE_MS]}
          ELSE UNCHANGED <<throttleTimer, throttleTimers>>
  ELSE UNCHANGED throttleVars

\* The universe listener of setupUniverseListener, when the universe
\* notified it: the flag is set, and a timer is set unless one is held.
onUniverseChange(notified) ==
  IF notified
  THEN /\ pendingUpdate' = TRUE
       /\ unsent' = NoteChange
       /\ IF throttleTimer = 0
          THEN /\ throttleTimer' = NewThrottleId
               /\ throttleTimers' = throttleTimers \cup
                    {[id |-> NewThrottleId, due |-> now + UI_THROTTLE_MS]}
          ELSE UNCHANGED <<throttleTimer, throttleTimers>>
  ELSE UNCHANGED throttleVars

\* Whether the universe call of this step notified the server's listener.
Notified == delivered'[UIServerListener] > 0

\* Client commands arrive while the server is open (and, to keep the clock
\* bounded, up to a last moment).
Accepting == ~uiClosed /\ now < MaxAdvances * FADE_STEP_INTERVAL

\* dmx:set-channel
UISetChannel ==
  \E c \in UIChannelArgs, v \in UIValueArgs :
    /\ Accepting
    /\ setChannel(c, v)
    /\ onUniverseChange(Notified)
    /\ Did("dmx:set-channel", c)
    /\ UNCHANGED <<fadeVars, drvVars, uiClosed, presets,
                   blackedOut, emitted, fixtures, recallTasks>>

\* dmx:set-channels
UISetChannels ==
  \E v \in UIValueArgs :
    /\ Accepting
    /\ setChannels([k \in {1} |-> v])
    /\ onUniverseChange(Notified)
    /\ Did("dmx:set-channels", 0)
    /\ UNCHANGED <<fadeVars, drvVars, uiClosed, presets,
                   blackedOut, emitted, fixtures, recallTasks>>

\* dmx:master
UISetMaster ==
  \E v \in UIValueArgs :
    /\ Accepting
    /\ setMasterDimmer(v)
    /\ onUniverseChange(Notified)
    /\ Did("dmx:master", 0)
    /\ UNCHANGED <<fadeVars, drvVars, uiClosed, presets,
                   blackedOut, emitted, fixtures, recallTasks>>

\* dmx:blackout without a fade time
UIBlackout ==
  /\ Accepting
  /\ blackout
  /\ onUniverseChange(Notified)
  /\ Did("dmx:blackout", 0)
  /\ UNCHANGED <<fadeVars, drvVars, uiClosed, presets,
                 blackedOut, emitted, fixtures, recallTasks>>

\* A throttle timer fires: emitDMXState() when the flag is set.
ThrottleFires ==
  \E t \in throttleTimers :
    /\ now >= t.due
    /\ throttleTimers' = throttleTimers \ {t}
    /\ throttleTimer' = 0
    /\ pendingUpdate' = FALSE
    /\ IF pendingUpdate
       THEN /\ emitted' = [at |-> now, prevAt |-> emitted.at,
                           since |-> unsent.since, changes |-> unsent.changes,
                           channels |-> getRawState, master |-> getMasterDimmer]
            /\ unsent' = NothingUnsent
       ELSE UNCHANGED <<emitted, unsent>>
    /\ delivered' = NoDeliveries
    /\ Did("throttleFired", pendingUpdate)
    /\ UNCHANGED <<uniVars, fadeVars, drvVars, uiClosed, presets,
                   blackedOut, fixtures, recallTasks>>

\* SocketUIServer.shutdown(): clearTimeout on the held handle.
UIShutdown ==
  /\ ~uiClosed
  /\ uiClosed' = TRUE
  /\ throttleTimers' = {t \in throttleTimers : t.id # throttleTimer}
  /\ delivered' = NoDeliveries
  /\ Did("uiShutdown", 0)
  /\ UNCHANGED <<uniVars, fadeVars, drvVars, throttleTimer, pendingUpdate,
                 unsent, emitted, fixtures, recallTasks, presets,
                 blackedOut>>

\* Time passes while commands may still arrive or a throttle timer is
\* pending.
UIAdvance ==
  \E dt \in ClockSteps :
    /\ \/ now < MaxAdvances * FADE_STEP_INTERVAL
       \/ \E t \in throttleTimers : t.due > now
    /\ now' = now + dt
    /\ delivered' = NoDeliveries
    /\ Did("advance", 0)
    /\ UNCHANGED <<uniVars, activeFade, fadeResolve, intervals, pending,
                   nextId, superseding, drvVars, srvVars>>

NextThrottle ==
  \/ UISetChannel
  \/ UISetChannels
  \/ UISetMaster
  \/ UIBlackout
  \/ ThrottleFires
  \/ UIShutdown
  \/ UIAdvance

SpecThrottle == InitUI /\ [][NextThrottle]_vars

\* The event loop runs a timer callback that is due, and time passes.
ThrottleFairness == WF_vars(ThrottleFires) /\ WF_vars(UIAdvance)

SpecThrottleLive == SpecThrottle /\ ThrottleFairness

\* ------------------------------------------------------- FixtureManager
\* An absent (undefined) field of a command or of a fixture.
Absent == -2000000

\* A fixture without a profile, and a profile without a modeChannel.
NoProfile ==
  [fixture |-> "", channelCount |-> 0, modeChannel |-> "", channels |-> <<>>,
   modes |-> <<>>]
NoModeChannel == ""

\* A bundled profile document.  channels lists the channel keys in sorted
\* order (Object.keys(profile.channels).sort()); a mode's controls are the
\* keys that have a control descriptor (not null), its colorWheelGroup the
\* keys the group names, its defaults the (key, value) entries in order.
ParProfile ==
  [fixture |-> "Par", channelCount |-> 2, modeChannel |-> "a_mode",
   channels |-> <<[key |-> "a_mode", role |-> "mode-select"],
                  [key |-> "b_level", role |-> "dynamic"]>>,
   modes |->
     <<[name |-> "M1", channelValue |-> 10, controls |-> {},
        colorWheelGroup |-> {}, defaults |-> <<>>],
       [name |-> "M2", channelValue |-> 50, controls |-> {},
        colorWheelGroup |-> {}, defaults |-> << <<"b_level", 200>> >>],
       [name |-> "M3", channelValue |-> 90, controls |-> {"b_level"},
        colorWheelGroup |-> {}, defaults |-> <<>>]>>]

\* A bundled profile without a modeChannel: its modes only set defaults.
StripProfile ==
  [fixture |-> "Strip", channelCount |-> 2, modeChannel |-> NoModeChannel,
   channels |-> <<[key |-> "a_dim", role |-> "dimmer"],
                  [key |-> "b_fx", role |-> "dynamic"]>>,
   modes |->
     <<[name |-> "S1", channelValue |-> 0, controls |-> {"a_dim"},
        colorWheelGroup |-> {}, defaults |-> << <<"b_fx", 30>> >>],
       [name |-> "S2", channelValue |-> 0, controls |-> {"a_dim"},
        colorWheelGroup |-> {"b_fx"}, defaults |-> <<>>],
       [name |-> "S3", channelValue |-> 0, controls |-> {"a_dim"},
        colorWheelGroup |-> {}, defaults |-> <<>>]>>]

\* The document an earlier release bundled under the fixture name "Par": one
\* channel, one mode.
ParProfileOld ==
  [fixture |-> "Par", channelCount |-> 1, modeChannel |-> "a_mode",
   channels |-> <<[key |-> "a_mode", role |-> "mode-select"]>>,
   modes |->
     <<[name |-> "M0", channelValue |-> 5, controls |-> {},
        colorWheelGroup |-> {}, defaults |-> <<>>]>>]

\* FixtureManager.bundledProfiles, by profile id.
bundledProfiles == [par |-> ParProfile, strip |-> StripProfile]

\* findBundledProfileByFixtureName: the bundled profile of that fixture
\* name, NoProfile for undefined.
findBundledProfileByFixtureName(fixtureName) ==
  IF \E id \in DOMAIN bundledProfiles : bundledProfiles[id].fixture = fixtureName
  THEN bundledProfiles[CHOOSE id \in DOMAIN bundledProfiles :
                         bundledProfiles[id].fixture = fixtureName]
  ELSE NoProfile

\* A getAll() that returns the stored documents as they are.
getAllAsStored(store) == store

\* The fixtures getAll() rewrites: didUpdate is set when there is one.
Drifted(store) ==
  {id \in DOMAIN store :
     /\ store[id].profile # NoProfile
     /\ findBundledProfileByFixtureName(store[id].profile.fixture) # NoProfile
     /\ store[id].profile
          # findBundledProfileByFixtureName(store[id].profile.fixture)}
didUpdate(store) == Drifted(store) # {}

\* getAll() on the stored fixtures: every profile fixture whose stored
\* document differs from the bundled one of the same fixture name gets the
\* bundled one; the list is persisted when that changed anything, so the
\* store after getAll() is what getAll() returns.
getAll(store) ==
  [id \in DOMAIN store |->
     LET f == store[id]
         bundled == findBundledProfileByFixtureName(f.profile.fixture)
     IN IF f.profile # NoProfile /\ bundled # NoProfile /\ f.profile # bundled
        THEN [f EXCEPT !.profile = bundled]
        ELSE f]

\* Object.keys(profile.channels).sort()
channelKeys(profile) ==
  [k \in 1 .. Len(profile.channels) |-> profile.channels[k].key]

\* keys.indexOf(key), -1 when absent.
IndexOfKey(keys, key) ==
  IF \E k \in 1 .. Len(keys) : keys[k] = key
  THEN (CHOOSE k \in 1 .. Len(keys) : keys[k] = key) - 1
  ELSE -1

\* profile.modes.find(m => m.name === modeName)
HasMode(profile, modeName) ==
  \E k \in 1 .. Len(profile.modes) : profile.modes[k].name = modeName
FindMode(profile, modeName) ==
  profile.modes[CHOOSE k \in 1 .. Len(profile.modes) :
                  /\ profile.modes[k].name = modeName
                  /\ \A j \in 1 .. (k - 1) : profile.modes[j].name # modeName]

\* key in mode.defaults
HasDefault(mode, key) ==
  \E k \in 1 .. Len(mode.defaults) : mode.defaults[k][1] = key

\* !fixture.startAddress
NoStartAddress(fixture) ==
  fixture.startAddress = Absent \/ fixture.startAddress = 0

\* The writes for the defaults of a mode, in order, skipping unknown keys.
RECURSIVE DefaultWrites(_, _, _)
DefaultWrites(keys, startAddress, defaults) ==
  IF defaults = <<>> THEN <<>>
  ELSE LET d == Head(defaults)
           rest == DefaultWrites(keys, startAddress, Tail(defaults))
       IN IF IndexOfKey(keys, d[1]) # -1
          THEN <<[channel |-> startAddress + IndexOfKey(keys, d[1]),
                  value |-> d[2]]>> \o rest
          ELSE rest

\* FixtureManager.setActiveMode(fixtureId, modeName) on the store: whether it
\* threw, the writes it returned, and the store after it.  It reads the
\* fixtures with getAll(); it throws for an unknown fixture, a fixture
\* without a profile and an unknown mode; it returns [] and stores nothing
\* when the profile has no modeChannel, when the modeChannel is not a
\* channel key, and when the fixture has no startAddress.
setActiveMode(store, fixtureId, modeName) ==
  LET fixtures_ == getAll(store) IN
  IF fixtureId \notin DOMAIN fixtures_
  THEN [threw |-> TRUE, results |-> <<>>, store |-> fixtures_]
  ELSE
  LET fixture == fixtures_[fixtureId]
      keys == channelKeys(fixture.profile)
  IN IF fixture.profile = NoProfile \/ ~HasMode(fixture.profile, modeName)
     THEN [threw |-> TRUE, results |-> <<>>, store |-> fixtures_]
     ELSE IF \/ fixture.profile.modeChannel = NoModeChannel
             \/ IndexOfKey(keys, fixture.profile.modeChannel) = -1
             \/ NoStartAddress(fixture)
     THEN [threw |-> FALSE, results |-> <<>>, store |-> fixtures_]
     ELSE
     LET mode == FindMode(fixture.profile, modeName)
         modeChannelIndex == IndexOfKey(keys, fixture.profile.modeChannel)
     IN [threw |-> FALSE,
         results |->
           <<[channel |-> fixture.startAddress + modeChannelIndex,
              value |-> mode.channelValue]>>
           \o DefaultWrites(keys, fixture.startAddress, mode.defaults),
         store |-> [fixtures_ EXCEPT ![fixtureId].activeMode = modeName]]

\* The fixture createFromProfile builds: one binding per sorted channel key
\* at startAddress + index (a binding is modelled by its dmxChannel).
ProfileFixture(profile, startAddress, activeMode) ==
  [profile |-> profile, startAddress |-> startAddress,
   activeMode |-> activeMode,
   channels |-> [k \in 1 .. Len(profile.channels) |-> startAddress + k - 1]]

\* The fixture create builds from the bindings it is given.
FlatFixture(dmxChannels) ==
  [profile |-> NoProfile, startAddress |-> Absent, activeMode |-> NoMode,
   channels |-> dmxChannels]

\* The store with one more fixture under a fresh id.
Push(store, id, fixture) ==
  [i \in DOMAIN store \cup {id} |-> IF i = id THEN fixture ELSE store[i]]

\* create(name, type, channels, colorMode), the new fixture getting id.
create(store, id, dmxChannels) ==
  [threw |-> FALSE, store |-> Push(getAll(store), id, FlatFixture(dmxChannels))]

\* A createFromProfile that tests only the lower end of the address range.
createFromProfileUnbounded(store, id, profileId, startAddress) ==
  IF profileId \notin DOMAIN bundledProfiles \/ startAddress < 1
  THEN [threw |-> TRUE, store |-> store]
  ELSE [threw |-> FALSE,
        store |->
          Push(store, id,
               ProfileFixture(bundledProfiles[profileId], startAddress,
                              bundledProfiles[profileId].modes[1].name))]

\* createFromProfile(name, profileId, startAddress), the new fixture getting
\* id: the profile must be bundled and the fixture must fit below the last
\* address, else it throws before it reads the store.
createFromProfile(store, id, profileId, startAddress) ==
  IF profileId \notin DOMAIN bundledProfiles
  THEN [threw |-> TRUE, store |-> store]
  ELSE LET profile == bundledProfiles[profileId] IN
       IF startAddress < 1 \/ startAddress + profile.channelCount - 1 > NumChannels
       THEN [threw |-> TRUE, store |-> store]
       ELSE [threw |-> FALSE,
             store |->
               Push(getAll(store), id,
                    ProfileFixture(profile, startAddress,
                                   IF Len(profile.modes) > 0
                                   THEN profile.modes[1].name ELSE NoMode))]

\* {...fixture, ...patch}: the fields the patch names are replaced.
Patched(fixture, patch) ==
  [k \in DOMAIN fixture |-> IF k \in DOMAIN patch THEN patch[k] ELSE fixture[k]]

\* update(id, patch): throws for an unknown id, else stores the patched
\* fixture as it is.
update(store, id, patch) ==
  LET fixtures_ == getAll(store) IN
  IF id \notin DOMAIN fixtures_
  THEN [threw |-> TRUE, store |-> fixtures_]
  ELSE [threw |-> FALSE,
        store |-> [fixtures_ EXCEPT ![id] = Patched(fixtures_[id], patch)]]

\* delete(id): false for an unknown id.
delete(store, id) ==
  LET fixtures_ == getAll(store) IN
  [threw |-> FALSE,
   store |-> [i \in DOMAIN fixtures_ \ {id} |-> fixtures_[i]]]

\* The DMX addresses the fixtures of a store bind.
BoundChannels(store) ==
  UNION {{store[i].channels[k] : k \in 1 .. Len(store[i].channels)} :
           i \in DOMAIN store}

\* The incoming fixture's bindings whose address is in existingChannels, and
\* the report importConfig pushes for a skipped fixture.
Conflicting(fixture, existingChannels) ==
  SelectSeq(fixture.fixture.channels, LAMBDA ch : ch \in existingChannels)
Skipped(r, report) ==
  [r EXCEPT !.skipped = @ + 1, !.conflicts = Append(@, report)]

\* A merge loop that tests the incoming fixture against the addresses bound
\* before the import only.
RECURSIVE MergeFixturesStale(_, _, _)
MergeFixturesStale(r, existingChannels, incoming) ==
  IF incoming = <<>> THEN r
  ELSE LET fixture == Head(incoming)
           conflicting == Conflicting(fixture, existingChannels)
       IN IF fixture.id \in DOMAIN r.store
          THEN MergeFixturesStale(
                 Skipped(r, [id |-> fixture.id, exists |-> TRUE,
                             channels |-> <<>>]),
                 existingChannels, Tail(incoming))
          ELSE IF conflicting # <<>>
          THEN MergeFixturesStale(
                 Skipped(r, [id |-> fixture.id, exists |-> FALSE,
                             channels |-> conflicting]),
                 existingChannels, Tail(incoming))
          ELSE MergeFixturesStale(
                 [r EXCEPT !.store = Push(@, fixture.id, fixture.fixture),
                           !.added = @ + 1],
                 existingChannels, Tail(incoming))

\* The merge loop of importConfig over the incoming fixtures, in order: one
\* whose id exists is skipped and reported, one with a binding whose address
\* is in existingChannels is skipped and reported with those addresses, any
\* other is pushed and its id and addresses join the sets.
RECURSIVE MergeFixtures(_, _, _)
MergeFixtures(r, existingChannels, incoming) ==
  IF incoming = <<>> THEN r
  ELSE LET fixture == Head(incoming)
           conflicting == Conflicting(fixture, existingChannels)
       IN IF fixture.id \in DOMAIN r.store
          THEN MergeFixtures(
                 Skipped(r, [id |-> fixture.id, exists |-> TRUE,
                             channels |-> <<>>]),
                 existingChannels, Tail(incoming))
          ELSE IF conflicting # <<>>
          THEN MergeFixtures(
                 Skipped(r, [id |-> fixture.id, exists |-> FALSE,
                             channels |-> conflicting]),
                 existingChannels, Tail(incoming))
          ELSE MergeFixtures(
                 [r EXCEPT !.store = Push(@, fixture.id, fixture.fixture),
                           !.added = @ + 1],
                 existingChannels
                   \cup {fixture.fixture.channels[k] :
                           k \in 1 .. Len(fixture.fixture.channels)},
                 Tail(incoming))

\* importConfig(config, strategy): 'replace' stores the incoming array as it
\* is, 'merge' adds what does not collide; a version other than 1 throws.
importConfig(store, config, strategy) ==
  IF config.version # 1
  THEN [threw |-> TRUE, store |-> store,
        added |-> 0, skipped |-> 0, conflicts |-> <<>>]
  ELSE IF strategy = "replace"
  THEN [threw |-> FALSE,
        store |->
          [i \in {config.fixtures[k].id : k \in 1 .. Len(config.fixtures)} |->
             (config.fixtures[CHOOSE k \in 1 .. Len(config.fixtures) :
                                config.fixtures[k].id = i]).fixture],
        added |-> Len(config.fixtures), skipped |-> 0, conflicts |-> <<>>]
  ELSE MergeFixtures([threw |-> FALSE, store |-> getAll(store),
                      added |-> 0, skipped |-> 0, conflicts |-> <<>>],
                     BoundChannels(getAll(store)), config.fixtures)

\* universe.setChannel(r.channel, r.value) for each returned write.
RECURSIVE ForwardWrites(_, _)
ForwardWrites(chs, results) ==
  IF results = <<>> THEN chs
  ELSE ForwardWrites(
         IF InvalidChannel(2 * Head(results).channel) THEN chs
         ELSE StoreChannel(chs, 2 * Head(results).channel, 2 * Head(results).value),
         Tail(results))

\* The profile channels (by index) the fixture:set-mode handler zeroes for a
\* mode: role dynamic, no control in the mode, no default, not in the
\* colorWheelGroup.
UnusedDynamic(profile, mode) ==
  {k \in 1 .. Len(profile.channels) :
     /\ profile.channels[k].role = "dynamic"
     /\ profile.channels[k].key \notin mode.controls
     /\ ~HasDefault(mode, profile.channels[k].key)
     /\ profile.channels[k].key \notin mode.colorWheelGroup}

\* The second half of the fixture:set-mode handler: setChannel(startAddress
\* + i, 0) for every unused dynamic channel of the fixture, when it has a
\* profile and a startAddress.
ZeroUnused(chs, fixture, modeName) ==
  IF fixture.profile = NoProfile \/ NoStartAddress(fixture) THEN chs
  ELSE LET unused == UnusedDynamic(fixture.profile,
                                   FindMode(fixture.profile, modeName))
       IN [i \in ChannelIndex |->
             IF \E k \in unused : fixture.startAddress + k - 1 = i + 1
             THEN 0 ELSE chs[i]]

\* The fixture:set-mode handler of the live-client server: the mode's writes,
\* the zeroing of the unused dynamic channels, fixtures:list to all clients;
\* an exception of setActiveMode is logged.
fixtureSetMode(chs, store, fixtureId, modeName) ==
  LET r == setActiveMode(store, fixtureId, modeName) IN
  IF r.threw
  THEN [channels |-> chs, fixtures |-> r.store, threw |-> TRUE,
        results |-> <<>>, live |-> <<>>, response |-> <<>>]
  ELSE [channels |-> ZeroUnused(ForwardWrites(chs, r.results),
                                r.store[fixtureId], modeName),
        fixtures |-> r.store, threw |-> FALSE, results |-> r.results,
        live |-> <<[event |-> "fixtures:list", data |-> r.store]>>,
        response |-> <<>>]

\* CompanionServer.handleSetMode: the mode's writes and the response.
handleSetMode(chs, store, fixtureId, modeName) ==
  IF fixtureId = "" \/ modeName = ""
  THEN [channels |-> chs, fixtures |-> store, threw |-> FALSE,
        results |-> <<>>, live |-> <<>>,
        response |-> <<[status |-> "error", action |-> "set_mode"]>>]
  ELSE
  LET r == setActiveMode(store, fixtureId, modeName) IN
  IF r.threw
  THEN [channels |-> chs, fixtures |-> r.store, threw |-> TRUE,
        results |-> <<>>, live |-> <<>>,
        response |-> <<[status |-> "error", action |-> "set_mode"]>>]
  ELSE [channels |-> ForwardWrites(chs, r.results),
        fixtures |-> r.store, threw |-> FALSE, results |-> r.results,
        live |-> <<>>,
        response |-> <<[status |-> "ok", action |-> "set_mode"]>>]

\* ------------------------------------------------- momentary triggers
\* The channel numbers (in halves) a client sends with a trigger: the first
\* channel, the last one and the one after it.
TriggerChannels == {2, 2 * NumChannels, 2 * NumChannels + 2}

\* fixture:trigger-start {channel}: universe.setChannel(channel, 255).
TriggerStart ==
  \E c \in TriggerChannels :
    /\ setChannel(c, 2 * 255)
    /\ Did("triggerStart", c)
    /\ UNCHANGED otherVars

\* fixture:trigger-end {channel}: universe.setChannel(channel, 0).
TriggerEnd ==
  \E c \in TriggerChannels :
    /\ setChannel(c, 0)
    /\ Did("triggerEnd", c)
    /\ UNCHANGED otherVars

\* Triggers sent while fades run.
NextTrigger ==
  \/ FadeTo
  \/ FadeTick
  \/ Advance
  \/ TriggerStart
  \/ TriggerEnd

SpecTrigger == Init /\ [][NextTrigger]_vars

\* What clients send to the fixture handlers.
FixtureIdArgs == FixtureIds \cup {"gone"}
FlatChannelArgs == {<<1>>}
ProfileIdArgs == {"par", "strip", "nope"}
StartAddressArgs == {0, 1, NumChannels}
ModeNameArgs == {"M1", "M2", "M3", "S1", "S2", "S3", "M9"}
UpdatePatches == {[startAddress |-> NumChannels], [activeMode |-> "M9"]}
\* Exported configurations a client may import: one written by an earlier
\* release (fixture G with the document bundled then), one of a version the
\* program does not know.
ImportConfigs ==
  {[version |-> 1,
    fixtures |-> <<[id |-> "G", fixture |-> ProfileFixture(ParProfileOld, 1, "M0")]>>],
   [version |-> 2, fixtures |-> <<>>]}
ImportStrategies == {"merge", "replace"}

\* What a fixture handler leaves alone besides the universe's channels and
\* the store.
registryUnchanged ==
  UNCHANGED <<masterDimmer, listeners, fadeVars, drvVars, throttleVars,
              uiClosed, presets, blackedOut, emitted, recallTasks>>

\* The channels a handler ends with, and the notifications of its setChannel
\* calls (the listeners hear of the handler's writes).
Wrote(chs, results) ==
  /\ channels' = chs
  /\ delivered' = IF results # <<>> THEN notifyListeners(listeners)
                  ELSE NoDeliveries

\* fixture:create
FixtureCreate ==
  \E id \in FixtureIds \ DOMAIN fixtures, chans \in FlatChannelArgs :
    /\ fixtures' = create(fixtures, id, chans).store
    /\ Wrote(channels, <<>>)
    /\ Did("create", [id |-> id])
    /\ registryUnchanged

\* fixture:create-from-profile: the fixture is created, and when it has an
\* activeMode and its profile a modeChannel, the mode's writes are applied.
FixtureCreateFromProfile ==
  \E id \in FixtureIds \ DOMAIN fixtures, profileId \in ProfileIdArgs,
     startAddress \in StartAddressArgs :
    \E c \in {createFromProfile(fixtures, id, profileId, startAddress)} :
    /\ IF c.threw
       THEN /\ fixtures' = c.store
            /\ Wrote(channels, <<>>)
       ELSE LET fixture == c.store[id] IN
            IF fixture.activeMode # NoMode
               /\ fixture.profile.modeChannel # NoModeChannel
            THEN \E r \in {setActiveMode(c.store, id, fixture.activeMode)} :
                    /\ fixtures' = r.store
                    /\ Wrote(ForwardWrites(channels, r.results), r.results)
            ELSE /\ fixtures' = c.store
                 /\ Wrote(channels, <<>>)
    /\ Did("createFromProfile",
           [id |-> id, profileId |-> profileId, startAddress |-> startAddress,
            threw |-> c.threw, before |-> fixtures, created |-> c.store])
    /\ registryUnchanged

\* fixture:update
FixtureUpdate ==
  \E id \in FixtureIdArgs, patch \in UpdatePatches :
    \E u \in {update(fixtures, id, patch)} :
    /\ fixtures' = u.store
    /\ Wrote(channels, <<>>)
    /\ Did("update", [id |-> id, patch |-> patch, threw |-> u.threw])
    /\ registryUnchanged

\* fixture:delete
FixtureDelete ==
  \E id \in FixtureIdArgs :
    /\ fixtures' = delete(fixtures, id).store
    /\ Wrote(channels, <<>>)
    /\ Did("delete", [id |-> id])
    /\ registryUnchanged

\* fixture:import
FixtureImport ==
  \E config \in ImportConfigs, strategy \in ImportStrategies :
    \E i \in {importConfig(fixtures, config, strategy)} :
    /\ fixtures' = getAll(i.store)
    /\ Wrote(channels, <<>>)
    /\ Did("import", [version |-> config.version, strategy |-> strategy,
                      threw |-> i.threw, stored |-> i.store])
    /\ registryUnchanged

\* A read of the fixtures (getAll(), as on a client's connection), with its
\* profile refresh.
FixturesRead ==
  /\ fixtures' = getAll(fixtures)
  /\ Wrote(channels, <<>>)
  /\ Did("getAll", [before |-> fixtures, didUpdate |-> didUpdate(fixtures)])
  /\ registryUnchanged

\* fixture:set-mode on the live-client server.
FixtureSetMode ==
  \E fixtureId \in FixtureIdArgs, modeName \in ModeNameArgs :
    \E h \in {fixtureSetMode(channels, fixtures, fixtureId, modeName)} :
    /\ fixtures' = h.fixtures
    /\ Wrote(h.channels, h.results)
    /\ Did("setMode",
           [server |-> "live", fixtureId |-> fixtureId, modeName |-> modeName,
            threw |-> h.threw, results |-> h.results, response |-> h.response])
    /\ registryUnchanged

\* set_mode on the automation server.
HandleSetMode ==
  \E fixtureId \in FixtureIdArgs, modeName \in ModeNameArgs :
    \E h \in {handleSetMode(channels, fixtures, fixtureId, modeName)} :
    /\ fixtures' = h.fixtures
    /\ Wrote(h.channels, h.results)
    /\ Did("setMode",
           [server |-> "automation", fixtureId |-> fixtureId,
            modeName |-> modeName, threw |-> h.threw, results |-> h.results,
            response |-> h.response])
    /\ registryUnchanged

\* The fixture handlers of both servers, and a trigger that puts a value on
\* a channel.
NextRegistry ==
  \/ FixtureCreate
  \/ FixtureCreateFromProfile
  \/ FixtureUpdate
  \/ FixtureDelete
  \/ FixtureImport
  \/ FixturesRead
  \/ FixtureSetMode
  \/ HandleSetMode
  \/ TriggerStart

SpecRegistry == Init /\ [][NextRegistry]_vars

\* The registry after an upgrade of the program: the store holds a fixture H
\* written by the earlier release (its Par document drifted), or one with
\* the current document, one of a profile that is not bundled, or one
\* without a profile.
CustomProfile == [ParProfileOld EXCEPT !.fixture = "Custom"]
UpgradedStores ==
  {[f \in {"H"} |-> ProfileFixture(ParProfileOld, 1, "M0")],
   [f \in {"H"} |-> ProfileFixture(ParProfile, 1, "M1")],
   [f \in {"H"} |-> ProfileFixture(CustomProfile, 1, "M0")],
   [f \in {"H"} |-> FlatFixture(<<2>>)]}

InitUpgraded ==
  /\ InitUniverse
  /\ listeners = <<>>
  /\ last = [op |-> "constructor", arg |-> 0]
  /\ InitFade
  /\ InitDriver
  /\ InitThrottle
  /\ fixtures \in UpgradedStores

\* The registry's reads and writes on such a store.
NextUpgraded ==
  \/ FixturesRead
  \/ FixtureCreateFromProfile
  \/ FixtureUpdate
  \/ FixtureDelete
  \/ FixtureSetMode

SpecUpgraded == InitUpgraded /\ [][NextUpgraded]_vars

\* ------------------------------------------------------- preset recall
\* The stored presets.  fixtureModes lists its entries in insertion order;
\* p2 names a fixture that is no longer in the store.
Presets ==
  { [id |-> "p1", name |-> "Warm", fadeTime |-> 0,
     channels |-> AsNumbers([i \in ChannelIndex |-> IF i = 0 THEN 7 ELSE 9]),
     fixtureModes |-> << <<"F", "M1">> >>],
    [id |-> "p2", name |-> "Cold", fadeTime |-> 60,
     channels |-> AsNumbers([i \in ChannelIndex |-> IF i = 0 THEN 255 ELSE 0]),
     fixtureModes |-> << <<"gone", "M1">>, <<"F", "M2">> >>],
    [id |-> "p3", name |-> "Plain", fadeTime |-> 0,
     channels |-> AsNumbers([i \in ChannelIndex |-> IF i = 0 THEN 7 ELSE 9]),
     fixtureModes |-> <<>>] }

\* PresetManager.getById: the preset, or none.
HasPreset(id) == \E q \in Presets : q.id = id
getById(id) == CHOOSE q \in Presets : q.id = id

\* What clients send in a recall command.
RecallIds == {"p1", "p2", "p3", "nope"}
RecallFadeTimes == {Absent, 0}

\* The fixtureModes loop of the preset:recall handler without its inner
\* try/catch: the first entry whose setActiveMode throws ends the loop.
RECURSIVE RestoreModesNoCatch(_, _, _)
RestoreModesNoCatch(chs, store, entries) ==
  IF entries = <<>> THEN [channels |-> chs, fixtures |-> store, failed |-> <<>>]
  ELSE LET r == setActiveMode(store, Head(entries)[1], Head(entries)[2])
       IN IF r.threw
          THEN [channels |-> chs, fixtures |-> store, failed |-> <<Head(entries)>>]
          ELSE RestoreModesNoCatch(ForwardWrites(chs, r.results), r.store,
                                   Tail(entries))

\* The fixtureModes loop of the preset:recall handler: an entry whose
\* setActiveMode throws is logged and skipped.  The channels and the store
\* after the loop, and the entries that were skipped.
RECURSIVE RestoreModes(_, _, _)
RestoreModes(chs, store, entries) ==
  IF entries = <<>> THEN [channels |-> chs, fixtures |-> store, failed |-> <<>>]
  ELSE LET r == setActiveMode(store, Head(entries)[1], Head(entries)[2])
           rest == RestoreModes(ForwardWrites(chs, r.results), r.store,
                                Tail(entries))
       IN IF r.threw
          THEN [rest EXCEPT !.failed = <<Head(entries)>> \o @]
          ELSE rest

Activation(preset) == [id |-> preset.id, name |-> preset.name]

\* A bridge that forwards nothing.
Unbridged(data) == <<>>

\* The listener main registers with onPresetActivated: the activation goes
\* to the automation clients.
presetActivatedListeners(data) ==
  <<[event |-> "preset_activated", data |-> data]>>

\* The listener main registers with onPresetRecalled: the activation goes
\* to the live clients (broadcastPresetActivated).
presetRecalledListeners(data) ==
  <<[event |-> "preset:activated", data |-> data]>>

\* The end of the preset:recall handler, after the universe was set: modes
\* restored, fixtures:list and preset:activated emitted, the bridge called.
\* The events of the step, and the channels and store after it.
FinishLiveRecall(chs, preset) ==
  LET r == RestoreModes(chs, fixtures, preset.fixtureModes)
  IN [channels |-> r.channels,
      fixtures |-> r.fixtures,
      live |-> (IF preset.fixtureModes # <<>>
                THEN <<[event |-> "fixtures:list", data |-> r.fixtures]>>
                ELSE <<>>)
               \o <<[event |-> "preset:activated", data |-> Activation(preset)]>>,
      automation |-> presetActivatedListeners(Activation(preset)),
      response |-> <<>>,
      failed |-> r.failed]

\* The end of handleRecallPreset, after the universe was set: the response,
\* the broadcast to the automation clients, the bridge to the live clients.
FinishAutomationRecall(chs, preset, fadeTime) ==
  [channels |-> chs,
   fixtures |-> fixtures,
   live |-> presetRecalledListeners(Activation(preset)),
   automation |-> <<[event |-> "preset_activated", data |-> Activation(preset)]>>,
   response |-> <<[status |-> "ok", action |-> "recall_preset",
                   presetId |-> preset.id, fadeTime |-> fadeTime]>>,
   failed |-> <<>>]

FinishRecall(server, chs, preset, fadeTime) ==
  IF server = "live" THEN FinishLiveRecall(chs, preset)
  ELSE FinishAutomationRecall(chs, preset, fadeTime)

Servers == {"live", "automation"}

\* An await resumes as soon as its promise is resolved, before any other
\* callback runs: no recall handler is waiting on a resolved promise.
NoneResumable == \A t \in recallTasks : t.promise \in pending

\* preset:recall on the live-client server and recall_preset on the
\* automation server, up to the handler's end or its await of fadeTo.
Recall ==
  \E server \in Servers, id \in RecallIds, ft \in RecallFadeTimes :
    /\ NoneResumable
    /\ now < MaxAdvances * FADE_STEP_INTERVAL
    /\ IF ~HasPreset(id)
       THEN /\ Did("recallNotFound",
                   [server |-> server, preset |-> id,
                    response |-> IF server = "automation"
                                 THEN <<[status |-> "error", action |-> "recall_preset"]>>
                                 ELSE <<>>])
            /\ delivered' = NoDeliveries
            /\ UNCHANGED <<uniVars, fadeVars, srvVars>>
       ELSE LET preset == getById(id)
                fadeTime == IF ft = Absent THEN preset.fadeTime ELSE ft
            IN IF fadeTime > 0
               THEN /\ fadeTo(preset.channels, fadeTime)
                    /\ recallTasks' = recallTasks \cup
                         {[server |-> server, preset |-> id, promise |-> nextId,
                           fadeTime |-> fadeTime]}
                    /\ Did("recallFading",
                           [server |-> server, preset |-> id, fadeTime |-> fadeTime])
                    /\ UNCHANGED <<throttleVars, uiClosed, presets,
                                   blackedOut, emitted,
                                   fixtures>>
               ELSE \E f \in {FinishRecall(server,
                                          applySnapshotStore(preset.channels),
                                          preset, fadeTime)} :
                       /\ channels' = f.channels
                       /\ fixtures' = f.fixtures
                       /\ delivered' = notifyListeners(listeners)
                       /\ onUniverseChange(Notified)
                       /\ Did("recalled",
                              [server |-> server, preset |-> id,
                               fadeTime |-> fadeTime, faded |-> FALSE,
                               live |-> f.live, automation |-> f.automation,
                               response |-> f.response, failed |-> f.failed])
                       /\ UNCHANGED <<masterDimmer, listeners, fadeVars,
                                      uiClosed, presets, blackedOut, emitted, recallTasks>>
    /\ UNCHANGED drvVars

\* A recall handler resumes after its await of fadeTo.
RecallResumes ==
  \E t \in recallTasks :
    /\ t.promise \notin pending
    /\ \E f \in {FinishRecall(t.server, channels, getById(t.preset),
                               t.fadeTime)} :
          /\ channels' = f.channels
          /\ fixtures' = f.fixtures
          /\ delivered' = IF f.channels # channels \/ f.fixtures # fixtures
                          THEN notifyListeners(listeners) ELSE NoDeliveries
          /\ onUniverseChange(Notified)
          /\ Did("recalled",
                 [server |-> t.server, preset |-> t.preset,
                  fadeTime |-> t.fadeTime, faded |-> TRUE,
                  live |-> f.live, automation |-> f.automation,
                  response |-> f.response, failed |-> f.failed])
    /\ recallTasks' = recallTasks \ {t}
    /\ UNCHANGED <<masterDimmer, listeners, fadeVars, drvVars, uiClosed, presets,
                   blackedOut, emitted>>

\* A tick of the fade in flight, with the server listening to the universe.
RecallTick ==
  \E iv \in intervals :
    /\ NoneResumable
    /\ tick(iv)
    /\ onUniverseChange(Notified)
    /\ UNCHANGED <<drvVars, uiClosed, presets,
                   blackedOut, emitted, fixtures, recallTasks>>

\* Time passes, a timer period at a time, while commands may still arrive or
\* a fade's next tick is not due yet.
RecallAdvance ==
  \E dt \in {FADE_STEP_INTERVAL} :
    /\ NoneResumable
    /\ \/ now < MaxAdvances * FADE_STEP_INTERVAL
       \/ \E iv \in intervals : iv.due > now
    /\ now' = now + dt
    /\ delivered' = NoDeliveries
    /\ Did("advance", 0)
    /\ UNCHANGED <<uniVars, activeFade, fadeResolve, intervals, pending,
                   nextId, superseding, drvVars, srvVars>>

\* The modes fixture F may be in when the servers are constructed.
RecallStartModes == {NoMode, "M1", "M2"}

\* The servers constructed on a store with the profile fixture F, made from
\* the bundled profile "par" at address 1.
InitRecall ==
  /\ InitUniverse
  /\ listeners = <<UIServerListener>>
  /\ last = [op |-> "constructor", arg |-> 0]
  /\ InitFade
  /\ InitDriver
  /\ InitThrottle
  /\ fixtures \in {[f \in {"F"} |-> ProfileFixture(ParProfile, 1, m)] :
                     m \in RecallStartModes}

NextRecall ==
  \/ Recall
  \/ RecallResumes
  \/ RecallTick
  \/ RecallAdvance

SpecRecall == InitRecall /\ [][NextRecall]_vars

\* ------------------------------------------------------- CompanionServer
\* An inbound frame's command: the fields the handlers read.  A string field
\* the frame does not carry is "" (the handlers test it with !), a number
\* field it does not carry is Absent (tested with === undefined and ??), and
\* NoAction stands for a frame without action, whose echo JSON.stringify
\* leaves out of the response.
NoAction == "undefined"

NoCommand ==
  [action |-> NoAction, id |-> "", fadeTime |-> Absent, channel |-> Absent,
   value |-> Absent, fixtureId |-> "", modeName |-> "", state |-> ""]

\* The commands automation clients send: every action with its required
\* arguments present and missing, an action the server does not know, and an
\* object without action.
RecallCommands ==
  {[NoCommand EXCEPT !.action = "recall_preset", !.id = a[1], !.fadeTime = a[2]] :
     a \in {<<"", Absent>>, <<"nope", Absent>>, <<"p2", Absent>>, <<"p2", 0>>}}
BlackoutCommands ==
  {[NoCommand EXCEPT !.action = "blackout", !.fadeTime = ft] :
     ft \in {Absent, 60}}
SetChannelCommands ==
  {[NoCommand EXCEPT !.action = "set_channel", !.channel = a[1], !.value = a[2]] :
     a \in {<<Absent, 2 * 255>>, <<2, Absent>>, <<2, 2 * 255>>,
            <<2 * NumChannels + 2, 2 * 255>>}}
PlainCommands ==
  {[NoCommand EXCEPT !.action = a] :
     a \in {"get_state", "list_presets", "bogus", NoAction}}
MasterDimmerCommands ==
  {[NoCommand EXCEPT !.action = "master_dimmer", !.value = v] :
     v \in {Absent, 2 * 128}}
SetModeCommands ==
  {[NoCommand EXCEPT !.action = "set_mode", !.fixtureId = a[1], !.modeName = a[2]] :
     a \in {<<"", "M2">>, <<"F", "">>, <<"F", "M2">>, <<"F", "M9">>,
            <<"gone", "M2">>}}
TriggerCommands ==
  {[NoCommand EXCEPT !.action = "trigger", !.channel = a[1], !.state = a[2]] :
     a \in {<<Absent, "on">>, <<2, "">>, <<2, "on">>, <<2, "off">>}}
AutomationCommands ==
  RecallCommands \cup BlackoutCommands \cup SetChannelCommands
  \cup PlainCommands \cup MasterDimmerCommands \cup SetModeCommands
  \cup TriggerCommands

\* The inbound frames: text that is no JSON, the JSON text null (it parses,
\* and reading its action throws), and the commands.
AutomationFrames ==
  {[kind |-> k, command |-> NoCommand] : k \in {"garbage", "null"}}
  \cup {[kind |-> "object", command |-> c] : c \in AutomationCommands}

\* sendResponse: the response is sent when the sender's socket is open.
sendResponse(open, response) == IF open THEN <<response>> ELSE <<>>

ok(action) == [status |-> "ok", action |-> action]
error(action) == [status |-> "error", action |-> action]

NoFade == [target |-> <<>>, duration |-> 0]

\* What a handler did when it returns or reaches its await: the universe
\* and the store it leaves, whether the universe notified its listeners,
\* the fade whose promise it awaits, the responses sent to the sender and
\* the events sent to the live and the automation clients.
Handled(chs, master, store, notified, sent) ==
  [channels |-> chs, masterDimmer |-> master, fixtures |-> store,
   notified |-> notified, fade |-> NoFade, sent |-> sent,
   live |-> <<>>, automation |-> <<>>]

\* A catch block of the message handler that sends nothing.
parseFailureSilent(chs, master, store, open) ==
  Handled(chs, master, store, FALSE, <<>>)

\* The catch block of the message handler.
parseFailure(chs, master, store, open) ==
  Handled(chs, master, store, FALSE, sendResponse(open, error("unknown")))

handleRecallPreset(chs, master, store, command, open) ==
  IF command.id = "" \/ ~HasPreset(command.id)
  THEN Handled(chs, master, store, FALSE,
               sendResponse(open, error("recall_preset")))
  ELSE LET preset == getById(command.id)
           fadeTime == IF command.fadeTime = Absent THEN preset.fadeTime
                       ELSE command.fadeTime
       IN IF fadeTime > 0
          THEN [Handled(chs, master, store, FALSE, <<>>) EXCEPT
                  !.fade = [target |-> preset.channels, duration |-> fadeTime]]
          ELSE LET f == FinishAutomationRecall(
                          applySnapshotStore(preset.channels), preset, fadeTime)
               IN [Handled(f.channels, master, store, TRUE,
                           sendResponse(open, f.response[1])) EXCEPT
                     !.live = f.live, !.automation = f.automation]

handleBlackout(chs, master, store, command, open) ==
  LET fadeTime == IF command.fadeTime = Absent THEN 0 ELSE command.fadeTime
  IN IF fadeTime > 0
     THEN [Handled(chs, master, store, FALSE, <<>>) EXCEPT
             !.fade = [target |-> AsNumbers(Zeros), duration |-> fadeTime]]
     ELSE Handled(Zeros, master, store, TRUE,
                  sendResponse(open, ok("blackout")))

handleSetChannel(chs, master, store, command, open) ==
  IF command.channel = Absent \/ command.value = Absent
  THEN Handled(chs, master, store, FALSE,
               sendResponse(open, error("set_channel")))
  ELSE Handled(IF InvalidChannel(command.channel) THEN chs
               ELSE StoreChannel(chs, command.channel, command.value),
               master, store, ~InvalidChannel(command.channel),
               sendResponse(open, ok("set_channel")))

handleGetState(chs, master, store, open) ==
  Handled(chs, master, store, FALSE, sendResponse(open, ok("get_state")))

handleListPresets(chs, master, store, open) ==
  Handled(chs, master, store, FALSE, sendResponse(open, ok("list_presets")))

handleMasterDimmer(chs, master, store, command, open) ==
  IF command.value = Absent
  THEN Handled(chs, master, store, FALSE,
               sendResponse(open, error("master_dimmer")))
  ELSE Handled(chs, Clamp(MathRound(command.value)), store, TRUE,
               sendResponse(open, ok("master_dimmer")))

\* handleSetMode, with its response sent through sendResponse.
handleSetModeCommand(chs, master, store, command, open) ==
  LET h == handleSetMode(chs, store, command.fixtureId, command.modeName)
  IN Handled(h.channels, master, h.fixtures, h.results # <<>>,
             sendResponse(open, h.response[1]))

\* A handleTrigger that writes the channel before it looks at the state.
handleTriggerWriteFirst(chs, master, store, command, open) ==
  LET value == IF command.state = "on" THEN 2 * 255 ELSE 0
      written == IF command.channel = Absent \/ InvalidChannel(command.channel)
                 THEN chs
                 ELSE StoreChannel(chs, command.channel, value)
  IN IF command.channel = Absent \/ command.state = ""
     THEN Handled(written, master, store, written # chs,
                  sendResponse(open, error("trigger")))
     ELSE Handled(written, master, store, ~InvalidChannel(command.channel),
                  sendResponse(open, ok("trigger")))

handleTrigger(chs, master, store, command, open) ==
  IF command.channel = Absent \/ command.state = ""
  THEN Handled(chs, master, store, FALSE,
               sendResponse(open, error("trigger")))
  ELSE LET value == IF command.state = "on" THEN 2 * 255 ELSE 0
       IN Handled(IF InvalidChannel(command.channel) THEN chs
                  ELSE StoreChannel(chs, command.channel, value),
                  master, store, ~InvalidChannel(command.channel),
                  sendResponse(open, ok("trigger")))

\* handleCommand, up to the handler's return or its await of fadeTo.
handleCommand(chs, master, store, command, open) ==
  CASE command.action = "recall_preset" ->
         handleRecallPreset(chs, master, store, command, open)
    [] command.action = "blackout" ->
         handleBlackout(chs, master, store, command, open)
    [] command.action = "set_channel" ->
         handleSetChannel(chs, master, store, command, open)
    [] command.action = "get_state" -> handleGetState(chs, master, store, open)
    [] command.action = "list_presets" ->
         handleListPresets(chs, master, store, open)
    [] command.action = "master_dimmer" ->
         handleMasterDimmer(chs, master, store, command, open)
    [] command.action = "set_mode" ->
         handleSetModeCommand(chs, master, store, command, open)
    [] command.action = "trigger" ->
         handleTrigger(chs, master, store, command, open)
    [] OTHER ->
         Handled(chs, master, store, FALSE,
                 sendResponse(open, error(command.action)))

\* The message handler: JSON.parse, handleCommand, and the catch block for
\* what either throws.
onMessage(chs, master, store, frame, open) ==
  IF frame.kind = "object"
  THEN handleCommand(chs, master, store, frame.command, open)
  ELSE parseFailure(chs, master, store, open)

\* Frames arrive within the first timer period, also while the handlers of
\* earlier frames await their fades.
FramesArrive == NoneResumable /\ now < FADE_STEP_INTERVAL

\* A frame arrives on the automation server and is handled up to the
\* handler's return or its await; open is the state of the sender's socket
\* when the handler sends.
Message ==
  \E frame \in AutomationFrames, open \in BOOLEAN :
    \E h \in {onMessage(channels, masterDimmer, fixtures, frame, open)} :
    /\ FramesArrive
    /\ IF h.fade # NoFade
       THEN /\ fadeTo(h.fade.target, h.fade.duration)
            /\ recallTasks' = recallTasks \cup
                 {[server |-> "automation", action |-> frame.command.action,
                   preset |-> frame.command.id, promise |-> nextId,
                   fadeTime |-> h.fade.duration]}
            /\ UNCHANGED <<throttleVars, uiClosed, presets, emitted, fixtures>>
       ELSE /\ channels' = h.channels
            /\ masterDimmer' = h.masterDimmer
            /\ fixtures' = h.fixtures
            /\ delivered' = IF h.notified THEN notifyListeners(listeners)
                            ELSE NoDeliveries
            /\ onUniverseChange(Notified)
            /\ UNCHANGED <<listeners, fadeVars, uiClosed, presets, emitted,
                           recallTasks>>
    /\ Did("message",
           [frame |-> frame, open |-> open, awaits |-> h.fade # NoFade,
            sent |-> h.sent, live |-> h.live, automation |-> h.automation])
    /\ blackedOut' = (/\ frame.kind = "object"
                      /\ frame.command.action = "blackout"
                      /\ h.fade = NoFade)
    /\ UNCHANGED drvVars

\* handleRecallPreset and handleBlackout after their await of the fade.
resume(chs, store, task, open) ==
  IF task.action = "recall_preset"
  THEN LET f == FinishAutomationRecall(chs, getById(task.preset), task.fadeTime)
       IN [Handled(chs, masterDimmer, store, FALSE,
                   sendResponse(open, f.response[1])) EXCEPT
             !.live = f.live, !.automation = f.automation]
  ELSE Handled(chs, masterDimmer, store, FALSE,
               sendResponse(open, ok("blackout")))

\* A handler resumes after its await: the fade's promise was resolved, by
\* the fade's last tick or by the fadeTo call of a later command.
MessageResumes ==
  \E t \in recallTasks, open \in BOOLEAN :
    \E h \in {resume(channels, fixtures, t, open)} :
    /\ t.promise \notin pending
    /\ delivered' = NoDeliveries
    /\ Did("resumed",
           [action |-> t.action, promise |-> t.promise, open |-> open,
            sent |-> h.sent, live |-> h.live, automation |-> h.automation])
    /\ recallTasks' = recallTasks \ {t}
    /\ UNCHANGED <<uniVars, fadeVars, drvVars, throttleVars, uiClosed, presets,
                   blackedOut, emitted, fixtures>>

\* The store the program starts on: fixture F, made by an earlier release
\* from the document bundled then; the first getAll() replaces the document
\* by the one bundled now.
AutomationStartStore ==
  [f \in {"F"} |-> ProfileFixture(ParProfileOld, 1, "M0")]

InitAutomation ==
  /\ InitUniverse
  /\ listeners = <<>>
  /\ last = [op |-> "constructor", arg |-> 0]
  /\ InitFade
  /\ InitDriver
  /\ InitThrottle
  /\ fixtures = AutomationStartStore

NextAutomation ==
  \/ Message
  \/ MessageResumes
  \/ RecallTick
  \/ RecallAdvance

SpecAutomation == InitAutomation /\ [][NextAutomation]_vars

\* The timers run and resolved awaits resume.
AutomationFairness ==
  WF_vars(MessageResumes) /\ WF_vars(RecallTick) /\ WF_vars(RecallAdvance)

SpecAutomationLive == SpecAutomation /\ AutomationFairness

\* ---------------------------------------------------------- PresetManager
\* The presets array holds records in creation order; a preset's channels
\* are JavaScript numbers (in halves), and the 512 of slice and of the
\* padding loop is NumChannels here.
PresetIds == {"q1", "q2"}

\* channels.slice(0, 512), then push(0) while shorter than 512.
PadTrim(chans) ==
  [k \in 1 .. NumChannels |-> IF k <= Len(chans) THEN chans[k] ELSE 0]

FreshPresetId(store) ==
  CHOOSE id \in PresetIds : \A k \in 1 .. Len(store) : store[k].id # id

presetIndex(store, id) ==
  IF \E k \in 1 .. Len(store) : store[k].id = id
  THEN CHOOSE k \in 1 .. Len(store) :
         store[k].id = id /\ \A j \in 1 .. (k - 1) : store[j].id # id
  ELSE -1

\* PresetManager.create: the preset is appended.
presetCreate(store, id, name, chans) ==
  Append(store, [id |-> id, name |-> name, channels |-> PadTrim(chans)])

\* PresetManager.captureFromUniverse
captureFromUniverse(store, id, name, raw) ==
  presetCreate(store, id, name, AsNumbers(raw))

\* {...presets[index], ...patch, id: presets[index].id}
presetPatched(preset, patch) ==
  [k \in DOMAIN preset |->
     IF k # "id" /\ k \in DOMAIN patch THEN patch[k] ELSE preset[k]]

\* PresetManager.update: throws for an unknown id.
presetUpdate(store, id, patch) ==
  IF presetIndex(store, id) = -1 THEN [threw |-> TRUE, store |-> store]
  ELSE [threw |-> FALSE,
        store |-> [store EXCEPT ![presetIndex(store, id)] =
                     presetPatched(@, patch)]]

\* PresetManager.delete
presetDelete(store, id) ==
  IF presetIndex(store, id) = -1 THEN store
  ELSE [k \in 1 .. (Len(store) - 1) |->
          IF k < presetIndex(store, id) THEN store[k] ELSE store[k + 1]]

HasStoredPreset(store, id) == presetIndex(store, id) # -1
presetGetById(store, id) == store[presetIndex(store, id)]

\* What callers pass: channel arrays of every length up to one more than the
\* store keeps, with byte values; patches of the name and of the channels.
PresetNames == {"A", "B"}
PresetChannelArgs ==
  UNION {[1 .. n -> {0, 2 * 255}] : n \in 0 .. (NumChannels + 1)}
PresetPatches ==
  {[name |-> "B"], [channels |-> <<2 * 255>>],
   [channels |-> [k \in 1 .. NumChannels |-> 2 * 700]]}

presetsUnchanged ==
  /\ delivered' = NoDeliveries
  /\ UNCHANGED <<uniVars, fadeVars, drvVars, throttleVars, uiClosed, emitted,
                 fixtures, recallTasks, blackedOut>>

\* PresetManager.create, called with a channel array.
PresetCreate ==
  \E name \in {"A"}, chans \in PresetChannelArgs :
    /\ Len(presets) < Cardinality(PresetIds)
    /\ presets' = presetCreate(presets, FreshPresetId(presets), name, chans)
    /\ Did("presetCreate",
           [id |-> FreshPresetId(presets), input |-> chans])
    /\ presetsUnchanged

\* preset:save: the universe's raw channels are captured.
PresetSave ==
  \E name \in {"A"} :
    /\ Len(presets) < Cardinality(PresetIds)
    /\ presets' = captureFromUniverse(presets, FreshPresetId(presets), name,
                                      channels)
    /\ Did("presetSave", [id |-> FreshPresetId(presets)])
    /\ presetsUnchanged

\* preset:update: an exception of update is logged.
PresetUpdate ==
  \E id \in PresetIds, patch \in PresetPatches :
    \E u \in {presetUpdate(presets, id, patch)} :
    /\ presets' = u.store
    /\ Did("presetUpdate", [id |-> id, patch |-> patch, threw |-> u.threw])
    /\ presetsUnchanged

\* preset:delete
PresetDelete ==
  \E id \in PresetIds :
    /\ presets' = presetDelete(presets, id)
    /\ Did("presetDelete", [id |-> id])
    /\ presetsUnchanged

\* The preset operations, and a trigger that puts a value on a channel.
NextPresets ==
  \/ PresetCreate
  \/ PresetSave
  \/ PresetUpdate
  \/ PresetDelete
  \/ TriggerStart

SpecPresets == Init /\ [][NextPresets]_vars

\* ------------------------------------------------------ channel conflicts
\* The fixtures array in its order: entries [id, fixture].  The bindings of
\* all fixtures in the order validateChannelConflicts visits them.
RECURSIVE Bindings(_)
Bindings(array) ==
  IF array = <<>> THEN <<>>
  ELSE [k \in 1 .. Len(Head(array).fixture.channels) |->
          [id |-> Head(array).id, binding |-> k,
           dmxChannel |-> Head(array).fixture.channels[k]]]
       \o Bindings(Tail(array))

\* A validateChannelConflicts whose map keeps the last binding of an address
\* as its owner.
RECURSIVE ScanLastOwner(_, _)
ScanLastOwner(bindings, owners) ==
  IF bindings = <<>> THEN <<>>
  ELSE LET b == Head(bindings) IN
       (IF b.dmxChannel \in DOMAIN owners
        THEN <<[dmxChannel |-> b.dmxChannel, fixture |-> b.id,
                binding |-> b.binding, owner |-> owners[b.dmxChannel]]>>
        ELSE <<>>)
       \o ScanLastOwner(Tail(bindings),
            [a \in DOMAIN owners \cup {b.dmxChannel} |->
               IF a = b.dmxChannel THEN [id |-> b.id, binding |-> b.binding]
               ELSE owners[a]])

\* The loops of validateChannelConflicts: a binding whose address has an
\* owner in the map is reported with that owner, any other becomes the owner.
RECURSIVE Scan(_, _)
Scan(bindings, owners) ==
  IF bindings = <<>> THEN <<>>
  ELSE LET b == Head(bindings) IN
       IF b.dmxChannel \in DOMAIN owners
       THEN <<[dmxChannel |-> b.dmxChannel, fixture |-> b.id,
               binding |-> b.binding, owner |-> owners[b.dmxChannel]]>>
            \o Scan(Tail(bindings), owners)
       ELSE Scan(Tail(bindings),
                 [a \in DOMAIN owners \cup {b.dmxChannel} |->
                    IF a = b.dmxChannel THEN [id |-> b.id, binding |-> b.binding]
                    ELSE owners[a]])

\* validateChannelConflicts() on the fixtures array (getAll() leaves the
\* order and the bindings alone): one conflict per reported binding.
validateChannelConflicts(array) == Scan(Bindings(array), <<>>)

\* A function store as an array, in some order.
RECURSIVE StoreArray(_)
StoreArray(store) ==
  IF DOMAIN store = {} THEN <<>>
  ELSE LET id == CHOOSE i \in DOMAIN store : TRUE IN
       <<[id |-> id, fixture |-> store[id]]>>
       \o StoreArray([i \in DOMAIN store \ {id} |-> store[i]])

\* The function store of an array with distinct ids.
ArrayStore(array) ==
  [i \in {array[k].id : k \in 1 .. Len(array)} |->
     (array[CHOOSE k \in 1 .. Len(array) : array[k].id = i]).fixture]

\* Fixture arrays a client may import with strategy replace: up to two
\* fixtures with distinct ids, each binding one or two addresses.
ConflictIds == {"g1", "g2", "g3"}
ConflictBindings == {<<1>>, <<2>>, <<1, 1>>}
ConflictArrays ==
  {<<>>}
  \cup {<<[id |-> i, fixture |-> FlatFixture(c)]>> :
          i \in ConflictIds, c \in ConflictBindings \cup {<<1, 2>>}}
  \cup {<<[id |-> p[1], fixture |-> FlatFixture(c)],
          [id |-> p[2], fixture |-> FlatFixture(d)]>> :
          p \in {q \in ConflictIds \X ConflictIds : q[1] # q[2]},
          c \in ConflictBindings, d \in ConflictBindings}

\* fixture:import with strategy replace, through to the handler's
\* validateChannelConflicts: the array is stored, fixtures:list and the
\* result are emitted, and fixtures:conflicts when there are any.
ImportReplace ==
  \E array \in ConflictArrays :
    \E i \in {importConfig(fixtures,
                           [version |-> 1, fixtures |-> array], "replace")} :
    \E conflicts \in {validateChannelConflicts(array)} :
    /\ fixtures' = getAll(i.store)
    /\ Wrote(channels, <<>>)
    /\ Did("importReplace",
           [array |-> array, conflicts |-> conflicts,
            live |-> <<"fixtures:list", "fixture:import-result">>
                     \o IF conflicts # <<>> THEN <<"fixtures:conflicts">>
                        ELSE <<>>])
    /\ registryUnchanged

\* Fixture lists a client may import with strategy merge: the arrays above
\* and lists of two fixtures with one id.
MergeLists ==
  ConflictArrays
  \cup {<<[id |-> i, fixture |-> FlatFixture(c)],
          [id |-> i, fixture |-> FlatFixture(d)]>> :
          i \in ConflictIds, c \in ConflictBindings, d \in ConflictBindings}

\* fixture:import with strategy merge, through to the handler's
\* validateChannelConflicts (whose emptiness does not depend on the order
\* of the array).
ImportMerge ==
  \E incoming \in MergeLists :
    \E i \in {importConfig(fixtures,
                           [version |-> 1, fixtures |-> incoming], "merge")} :
    \E conflicts \in {validateChannelConflicts(StoreArray(getAll(i.store)))} :
    /\ fixtures' = getAll(i.store)
    /\ Wrote(channels, <<>>)
    /\ Did("importMerge",
           [before |-> fixtures, incoming |-> incoming, result |-> i,
            conflictsBefore |->
              validateChannelConflicts(StoreArray(getAll(fixtures))),
            conflictsAfter |-> conflicts,
            live |-> <<"fixtures:list", "fixture:import-result">>
                     \o IF conflicts # <<>> THEN <<"fixtures:conflicts">>
                        ELSE <<>>])
    /\ registryUnchanged

\* The names of the events a connection handler that reports the conflicts
\* unconditionally sends, and how many of them precede the registration of
\* the command handlers.
onConnectionAlways(store) ==
  [sent |-> <<"dmx:state", "dmx:status", "presets:list", "fixtures:list",
              "fixtures:profiles", "fixtures:conflicts">>,
   handlersAfter |-> 6]

\* The io.on('connection') callback up to its first socket.on: the names of
\* the events it sends to the new client, in order, and how many of them
\* precede the registration of the command handlers.
onConnection(store) ==
  LET conflicts == validateChannelConflicts(StoreArray(getAll(store)))
      sent == <<"dmx:state", "dmx:status", "presets:list", "fixtures:list",
                "fixtures:profiles">>
              \o IF Len(conflicts) > 0 THEN <<"fixtures:conflicts">> ELSE <<>>
  IN [sent |-> sent, handlersAfter |-> Len(sent)]

\* A live client connects.
Connection ==
  \E c \in {onConnection(fixtures)} :
    /\ fixtures' = getAll(fixtures)
    /\ Wrote(channels, <<>>)
    /\ Did("connection", [sent |-> c.sent, handlersAfter |-> c.handlersAfter,
                          before |-> fixtures])
    /\ registryUnchanged

NextConflicts ==
  \/ ImportReplace
  \/ ImportMerge
  \/ Connection

SpecConflicts == Init /\ [][NextConflicts]_vars

\* The whole program: the universe, the fade engine and the driver side by
\* side.
Next == NextUniverse \/ NextFade \/ NextDriver

Spec == Init /\ [][Next]_vars

\* ------------------------------------------------------ universe claims
Subscribed == {l \in ListenerIds : InSeq(listeners, l)}

\* C1: after any sequence of setChannel, setChannels, applySnapshot,
\* setMasterDimmer and blackout calls with arbitrary arguments, every raw
\* channel byte, every effective channel byte and the master dimmer lie in
\* [0,255].
C1_AllInByteRange ==
  /\ \A i \in ChannelIndex : channels[i] \in 0 .. 255
  /\ \A i \in ChannelIndex : getState[i] \in 0 .. 255
  /\ masterDimmer \in 0 .. 255

\* C2 as claimed: each call of setChannel, of setChannels and of
\* applySnapshot delivers exactly one change notification to every subscribed
\* listener.
C2_OneNotificationPerCall ==
  last.op \in {"setChannel", "setChannels", "applySnapshot"}
    => \A l \in Subscribed : delivered[l] = 1

\* C2 as amended: a setChannel call whose channel number c satisfies
\* 1 <= c <= 512, every setChannels call and every applySnapshot call deliver
\* exactly one change notification to every subscribed listener (and none to
\* any other); a setChannel call with c < 1 or c > 512 delivers none.
C2_OneNotificationPerAcceptedCall ==
  /\ (\/ last.op \in {"setChannels", "applySnapshot"}
      \/ last.op = "setChannel" /\ last.arg \in 2 .. (2 * NumChannels))
       => \A l \in ListenerIds : delivered[l] = (IF l \in Subscribed THEN 1 ELSE 0)
  /\ (last.op = "setChannel" /\ last.arg # NaN
        /\ (last.arg < 2 \/ last.arg > 2 * NumChannels))
       => \A l \in ListenerIds : delivered[l] = 0

\* C2 witness: a batch was applied while two listeners were subscribed, the
\* throwing one first, and each received its one notification.
C2_Witness ==
  /\ last.op = "setChannels"
  /\ Len(listeners) >= 2
  /\ listeners[1] \in ThrowingListeners
  /\ \A l \in Subscribed : delivered[l] = 1
  /\ channels[0] = 255

\* C3: in every reachable universe state the effective value of every channel
\* is round(raw * master / 255), the integer e with
\* e - 1/2 <= raw * master / 255 < e + 1/2.  (Its other half, that
\* setMasterDimmer leaves the raw channels alone, is C3_SetMasterKeepsRaw.)
C3_EffectiveIsScaledRaw ==
  \A i \in ChannelIndex :
    /\ masterDimmer # NaN
    /\ 510 * getState[i] - 255 <= 2 * channels[i] * masterDimmer
    /\ 2 * channels[i] * masterDimmer < 510 * getState[i] + 255

\* The same, in the states whose master dimmer is a number.
C3_EffectiveIsScaledRawOfNumericMaster ==
  masterDimmer # NaN => C3_EffectiveIsScaledRaw

\* setMasterDimmer changes only the master dimmer.
C3_SetMasterKeepsRaw ==
  [][last'.op = "setMasterDimmer" => channels' = channels]_vars

\* -------------------------------------------------------- fade claims
\* |raw - (start + (T - start) * min(1, t/d))| <= 1 for every channel, with
\* both sides multiplied by 2d (T is in halves).
WithinOneOfLerp(raw, iv, t) ==
  \A i \in ChannelIndex :
    LET exact2d == 2 * iv.startChannels[i] * iv.durationMs
                   + (iv.targetChannels[i + 1] - 2 * iv.startChannels[i])
                     * Min(t, iv.durationMs)
        diff == 2 * iv.durationMs * raw[i] - exact2d
    IN diff <= 2 * iv.durationMs /\ -diff <= 2 * iv.durationMs

\* C4: for a fadeTo(T, d) with d > 0, after every fade tick at elapsed time
\* t each raw channel is within 1 of start + (T - start) * min(1, t/d), start
\* being the raw state captured when fadeTo was called, and when the fade
\* completes the raw state equals T.
C4_FadeFollowsLerp ==
  /\ last.op \in {"fadeTick", "fadeComplete"}
       => WithinOneOfLerp(channels, last.arg, last.arg.due)
  /\ last.op = "fadeComplete" => AsNumbers(channels) = last.arg.targetChannels

\* C4 witness: a tick strictly inside a fade left a channel strictly between
\* its start and its target.
C4_Witness ==
  /\ last.op = "fadeTick"
  /\ last.arg.due < last.arg.durationMs
  /\ last.arg.startChannels[0] = 0
  /\ channels[0] > 0
  /\ 2 * channels[0] < last.arg.targetChannels[1]

\* C5: if a second fadeTo(T2, d2) is issued while a first fade is in flight,
\* the first fadeTo's pending completion is resolved at that moment, the
\* first fade applies no further ticks (its timer is gone), and when the
\* second fade has run its d2 the raw universe equals T2.
C5_SecondFadeSupersedes ==
  /\ (last.op \in {"fadeTo", "fadeToBlackout"} /\ last.arg.id # 0)
       => /\ last.arg.id \notin pending
          /\ \A iv \in intervals : iv.id # last.arg.id
  /\ (last.op = "fadeComplete" /\ last.arg.id \in superseding)
       => AsNumbers(channels) = last.arg.targetChannels

\* C5 witness: a fade that was started while another one had already moved
\* the universe has completed on its target.
C5_Witness ==
  /\ last.op = "fadeComplete"
  /\ last.arg.id \in superseding
  /\ last.arg.startChannels # Zeros
  /\ AsNumbers(last.arg.startChannels) # last.arg.targetChannels
  /\ AsNumbers(channels) = last.arg.targetChannels
  /\ pending = {}

\* C6: an instant applySnapshot (a preset recall with effective fadeTime 0)
\* processed while a fade is in flight resolves that fade's pending completion
\* and ends the fade, so that no later tick overwrites the snapshot.
C6_InstantRecallEndsFade ==
  (last.op = "recallInstant" /\ last.arg.id # 0)
    => /\ last.arg.id \notin pending
       /\ intervals = {}

\* C7: cancel() during an in-flight fade stops it where it is: afterwards no
\* fade timer is left to mutate the universe, the raw channels are those of
\* the last applied tick (as before the call), and the pending fadeTo
\* completion is resolved.
C7_CancelStopsInPlace ==
  last.op = "cancelFade"
    => /\ intervals = {}
       /\ channels = last.arg.raw
       /\ pending = {}
       /\ activeFade = 0

\* C7 witness: a fade was cancelled midway, the universe neither at its start
\* nor at its target.
C7_Witness ==
  /\ last.op = "cancelFade"
  /\ last.arg.fade.id # 0
  /\ channels # last.arg.fade.startChannels
  /\ AsNumbers(channels) # last.arg.fade.targetChannels
  /\ intervals = {}

\* C8: at most one fade is in flight per FadeEngine: after any sequence of
\* fadeTo, fadeToBlackout and cancel calls there is at most one active fade
\* tick timer and at most one unresolved fadeTo completion.
C8_SingleFadeInFlight ==
  /\ Cardinality(intervals) <= 1
  /\ Cardinality(pending) <= 1

\* C8 witness: a second fade is in flight, having replaced a first one.
C8_Witness ==
  /\ activeFade \in superseding
  /\ Cardinality(intervals) = 1
  /\ pending = {activeFade}

\* ------------------------------------------------------ driver claims
\* 1000 ms doubled n times, capped at 30000 ms.
Backoff(n) == Min(1000 * 2 ^ n, 30000)

\* C9: the delay before a reconnect attempt is 1000 ms for the first attempt
\* after start, restart or a successful open, and doubles after each
\* consecutive failed reconnect attempt (no device found or port open
\* failed), capped at 30000 ms: every pending reconnect timer was set to
\* Backoff(the consecutive failed attempts before it).
C9_BackoffDoublesPerFailure ==
  \A t \in timers : t.delay = Backoff(t.fails)

\* C10: every entry into Disconnected schedules a reconnect: whenever a scan
\* finds no device (in initialize(), restart() or a reconnect attempt), a port
\* open fails, or the port closes or raises an error while Connected, and
\* shutdown() has not been called, a reconnect timer is pending afterwards.
C10_DisconnectedSchedulesReconnect ==
  (/\ ~isShuttingDown
   /\ \/ last.op \in {"scanNoDevice", "openFailed"}
      \/ last.op \in {"portClosed", "portError"} /\ last.arg = "connected")
    => timers # {}

\* -------------------------------------------------- driver claims, continued
\* From some point on every scan finds the device and every open succeeds.
DeviceStaysAvailable == <>[][~DetectNone /\ ~OpenFails]_vars

\* C11: if shutdown() is never called and from some point on a device is
\* always detected and its port opens, then from every state after
\* initialize() was called the transmitter eventually becomes connected.
C11_ReconnectIsLive ==
  ([]~isShuttingDown /\ DeviceStaysAvailable)
    => [](calls.initialize = 1 => <>isConnected)

\* C12: a reconnect timer that fires was not scheduled before a call of
\* shutdown() or of restart(): it fires with shutdown() not called and with
\* no restart() call made since it was scheduled.
C12_CancelledTimersNeverFire ==
  last.op = "timerFired" =>
    ~isShuttingDown /\ last.arg.restarts = calls.restart

\* The shutdown() half of C12: no reconnect timer fires after shutdown().
C12_NoTimerFiresAfterShutdown ==
  last.op = "timerFired" => ~isShuttingDown

\* C13: once shutdown() has been called no serial port is opened, no
\* connected status arises, no reconnect is scheduled and no frame is
\* written.
C13_ShutdownIsTerminal ==
  isShuttingDown =>
    /\ last.op \notin {"scanFound", "openSucceeded"}
    /\ timers = {}
    /\ ~(last.op = "refreshTick" /\ last.arg.written # <<>>)

\* The scheduling half of C13: after shutdown() no reconnect timer is
\* pending.
C13_NoReconnectAfterShutdown == isShuttingDown => timers = {}

\* C14: the status last published to the subscribers is the current
\* status, getStatus().
C14_PublishedStatusIsCurrent ==
  status = [connected |-> isConnected, port |-> portPath]

\* C15: a refresh tick writes exactly one frame, the packet of the effective
\* state, when the transmitter is connected (and not in the middle of
\* closing its port), and nothing when it is not connected; a write error
\* leaves the connection state as it was.
C15_TickWritesOneFrameIffConnected ==
  /\ last.op = "refreshTick" =>
        /\ (isConnected /\ (serialPort = 0 \/ ports[serialPort] # "closing"))
              => last.arg.written = <<buildDMXPacket(StateBytes)>>
        /\ ~isConnected => last.arg.written = <<>>
  /\ last.op = "writeError" =>
        /\ last.arg.connected = isConnected
        /\ last.arg.port = portPath
        /\ last.arg.serialPort = serialPort

\* C15 for the ticks at which the driver holds an open port.
C15_TickWritesWhenPortHeld ==
  last.op = "refreshTick" =>
    last.arg.written = IF isConnected /\ PortIsOpen
                       THEN <<buildDMXPacket(StateBytes)>> ELSE <<>>

\* C16: the frame encoded from a 512-byte input has 518 bytes, begins
\* 7E 06 01 02 00, ends E7, and its bytes 5..516 are the input in order.
C16_FrameEncoding ==
  (last.op = "buildDMXPacket" /\ Len(last.arg.channels) = 512) =>
    LET packet == last.arg.packet
    IN /\ Len(packet) = 518
       /\ SubSeq(packet, 1, 5) = <<126, 6, 1, 2, 0>>
       /\ packet[518] = 231
       /\ \A i \in 5 .. 516 : packet[i + 1] = last.arg.channels[i - 4]

\* A 512-byte input whose bytes differ from one another was encoded.
C16_Witness ==
  /\ last.op = "buildDMXPacket"
  /\ Len(last.arg.channels) = 512
  /\ last.arg.channels[1] = 10
  /\ last.arg.channels[512] = 3
  /\ last.arg.packet[6] = 10

\* --------------------------------------------------------- server claims
\* The last dmx:state broadcast covers every change and carries the raw
\* channels and the master as they are now.
FinalStateBroadcast ==
  /\ unsent.changes = 0
  /\ emitted.at # -1
  /\ emitted.channels = getRawState
  /\ emitted.master = getMasterDimmer

\* C17: after any universe change, unless the server is shut down, a
\* dmx:state broadcast is eventually emitted that carries the raw channels
\* and the master as they are after the last change.
C17_FinalStateIsBroadcast ==
  [](unsent.changes > 0 => <>(uiClosed \/ FinalStateBroadcast))

\* Two changes were coalesced into one broadcast of the final state.
C17_Witness ==
  /\ last.op = "throttleFired"
  /\ emitted.changes = 2
  /\ emitted.channels[0] = 255
  /\ FinalStateBroadcast

\* C18: dmx:state is broadcast only by the throttle timer; at most one
\* throttle timer is pending; while a change is unsent the timer is due 33 ms
\* after the first unsent change and the broadcast is not made before then;
\* consecutive broadcasts are at least 33 ms apart.
C18_BroadcastOnlyByThrottle ==
  /\ [][emitted' # emitted => last'.op = "throttleFired"]_vars
  /\ [](Cardinality(throttleTimers) <= 1)
  /\ []((unsent.changes > 0 /\ ~uiClosed) =>
          \E t \in throttleTimers : t.due = unsent.since + 33)
  /\ [](emitted.at # -1 => emitted.at >= emitted.since + 33)
  /\ [](emitted.prevAt # -1 => emitted.at - emitted.prevAt >= 33)

\* A second throttled broadcast was made.
C18_Witness ==
  /\ last.op = "throttleFired"
  /\ emitted.prevAt # -1
  /\ emitted.changes = 2

\* The entries of a preset's fixtureModes that name a fixture of the store
\* and a mode of its profile.
RestorableModes(preset) ==
  {k \in 1 .. Len(preset.fixtureModes) :
     /\ preset.fixtureModes[k][1] \in DOMAIN fixtures
     /\ HasMode(fixtures[preset.fixtureModes[k][1]].profile,
                preset.fixtureModes[k][2])}

\* The DMX addresses (0-indexed) the restored modes of a preset write.
ModeAddresses(preset) ==
  UNION {{w.channel - 1 :
            w \in {setActiveMode(fixtures, preset.fixtureModes[k][1],
                                 preset.fixtureModes[k][2]).results[n] :
                     n \in 1 .. Len(setActiveMode(fixtures,
                                     preset.fixtureModes[k][1],
                                     preset.fixtureModes[k][2]).results)}} :
         k \in RestorableModes(preset)}

\* After the recall of preset: each fixture it lists is in the listed mode,
\* the mode's writes are on the bus, every other channel is the preset's.
ModesRestored(preset) ==
  /\ \A k \in RestorableModes(preset) :
        LET f == preset.fixtureModes[k][1]
            m == preset.fixtureModes[k][2]
            writes == setActiveMode(fixtures, f, m).results
        IN /\ fixtures[f].activeMode = m
           /\ \A n \in 1 .. Len(writes) :
                 channels[writes[n].channel - 1] = writes[n].value
  /\ \A i \in ChannelIndex \ ModeAddresses(preset) :
        channels[i] = applySnapshotStore(preset.channels)[i]

\* C19: after a recall with effective fadeTime 0 through either server,
\* every fixture listed in the preset's fixtureModes has the listed mode as
\* activeMode, that mode's mode-select value and defaults are on the bus, and
\* every other raw channel equals the preset's channels.
C19_InstantRecallRestoresModes ==
  (last.op = "recalled" /\ last.arg.fadeTime = 0) =>
    ModesRestored(getById(last.arg.preset))

\* C19 for the recalls through the live-client server.
C19_LiveInstantRecallRestoresModes ==
  (last.op = "recalled" /\ last.arg.fadeTime = 0 /\ last.arg.server = "live") =>
    ModesRestored(getById(last.arg.preset))

\* How many events named e a sequence of events holds.
CountEvents(events, e) ==
  Cardinality({k \in 1 .. Len(events) : events[k].event = e})

\* C20: a successful recall on either server sends exactly one
\* preset:activated to the live clients and exactly one preset_activated to
\* the automation clients, each with the preset's id and name; a recall that
\* awaits its fade sends them when it resumes.
C20_OneActivationPerRecall ==
  /\ last.op = "recalled" =>
        LET preset == getById(last.arg.preset)
        IN /\ CountEvents(last.arg.live, "preset:activated") = 1
           /\ CountEvents(last.arg.automation, "preset_activated") = 1
           /\ \A k \in 1 .. Len(last.arg.live) :
                 last.arg.live[k].event = "preset:activated" =>
                   last.arg.live[k].data = [id |-> preset.id, name |-> preset.name]
           /\ \A k \in 1 .. Len(last.arg.automation) :
                 last.arg.automation[k].data = [id |-> preset.id, name |-> preset.name]
  /\ \A t \in recallTasks :
        t.promise \in pending => \E iv \in intervals : iv.id = t.promise

\* A recall on the live-client server resumed after its fade and sent its
\* events.
C20_Witness ==
  /\ last.op = "recalled"
  /\ last.arg.server = "live"
  /\ last.arg.faded
  /\ last.arg.preset = "p2"
  /\ Len(last.arg.automation) = 1

\* C21: in a recall whose fixtureModes loop had an entry fail in
\* setActiveMode (the fixture is gone), the loop went on: every entry that
\* names a fixture of the store and a mode of its profile is applied (the
\* fixture is in that mode, the mode's writes are on the bus), and the
\* activation was sent once to the live clients and once to the automation
\* clients.
C21_ModeFailureDoesNotAbortRecall ==
  (last.op = "recalled" /\ last.arg.failed # <<>>) =>
    LET preset == getById(last.arg.preset)
    IN /\ \A k \in RestorableModes(preset) :
             LET f == preset.fixtureModes[k][1]
                 m == preset.fixtureModes[k][2]
                 writes == setActiveMode(fixtures, f, m).results
             IN /\ fixtures[f].activeMode = m
                /\ \A n \in 1 .. Len(writes) :
                      channels[writes[n].channel - 1] = writes[n].value
       /\ CountEvents(last.arg.live, "preset:activated") = 1
       /\ CountEvents(last.arg.automation, "preset_activated") = 1

\* A recall of p2 skipped the entry of the deleted fixture and put F, which
\* the entry after it names, into mode M2.
C21_Witness ==
  /\ last.op = "recalled"
  /\ last.arg.preset = "p2"
  /\ last.arg.failed = << <<"gone", "M1">> >>
  /\ RestorableModes(getById("p2")) = {2}
  /\ fixtures["F"].activeMode = "M2"
  /\ channels[0] = 50

\* C22: with one client session per server, a command of a session is
\* handled only after every earlier command of that session has had all its
\* effects: no command is handled to its end, and none starts its fade,
\* while an earlier timed recall of the same session still awaits its fade
\* (its response, its mode writes and its activation events are yet to come).
C22_CommandsInOrder ==
  /\ (last.op = "recallNotFound" \/ (last.op = "recalled" /\ ~last.arg.faded)) =>
        \A t \in recallTasks : t.server # last.arg.server
  /\ last.op = "recallFading" =>
        Cardinality({t \in recallTasks : t.server = last.arg.server}) <= 1

\* C25: a fixture:trigger-end for a channel handled while a fade is in
\* flight wins over the fade: the fade tick that runs next leaves the
\* channel's raw value at 0.
C25_TriggerEndWinsOverFade ==
  [][(/\ last.op = "triggerEnd"
      /\ ~InvalidChannel(last.arg)
      /\ last'.op \in {"fadeTick", "fadeComplete"})
     => channels'[(last.arg \div 2) - 1] = 0]_vars

\* A profile fixture as createFromProfile makes it: one binding per profile
\* channel, at contiguous addresses from startAddress, the last one within
\* the universe.
Contiguous(fixture) ==
  /\ Len(fixture.channels) = fixture.profile.channelCount
  /\ Len(fixture.channels) = Len(fixture.profile.channels)
  /\ \A k \in 1 .. Len(fixture.channels) :
        fixture.channels[k] = fixture.startAddress + k - 1
  /\ fixture.startAddress >= 1
  /\ fixture.startAddress + fixture.profile.channelCount - 1 <= NumChannels

\* The universe the specification promises after a mode switch of fixture
\* to mode from the channels chs: the mode-select address at the mode's
\* channelValue, every default at its value, every unused dynamic channel
\* at 0, every other channel as it was.
AfterModeSwitch(chs, fixture, mode) ==
  LET keys == channelKeys(fixture.profile)
      key(i) == keys[i + 2 - fixture.startAddress]
      ofFixture(i) == i + 2 - fixture.startAddress \in 1 .. Len(keys)
  IN [i \in ChannelIndex |->
        IF ~ofFixture(i) THEN chs[i]
        ELSE IF key(i) = fixture.profile.modeChannel THEN mode.channelValue
        ELSE IF HasDefault(mode, key(i))
        THEN mode.defaults[CHOOSE k \in 1 .. Len(mode.defaults) :
                             mode.defaults[k][1] = key(i)][2]
        ELSE IF i + 2 - fixture.startAddress \in UnusedDynamic(fixture.profile, mode)
        THEN 0
        ELSE chs[i]]

\* C26: after the live-client fixture:set-mode command is handled for a
\* profile fixture and a mode of its profile, the mode-select address holds
\* the mode's channelValue, every address named by the mode's defaults
\* holds its default, every dynamic channel without control, default and
\* colorWheelGroup membership holds 0, and all other channels are unchanged.
C26_SetModeLeavesModeOnBus ==
  [][(/\ last'.op = "setMode"
      /\ last'.arg.server = "live"
      /\ ~last'.arg.threw
      /\ Contiguous(fixtures'[last'.arg.fixtureId]))
     => channels' =
          AfterModeSwitch(channels, fixtures'[last'.arg.fixtureId],
                          FindMode(fixtures'[last'.arg.fixtureId].profile,
                                   last'.arg.modeName))]_vars

\* C26 for the profiles that have a modeChannel.
C26_SetModeWithModeChannel ==
  [][(/\ last'.op = "setMode"
      /\ last'.arg.server = "live"
      /\ ~last'.arg.threw
      /\ Contiguous(fixtures'[last'.arg.fixtureId])
      /\ fixtures'[last'.arg.fixtureId].profile.modeChannel # NoModeChannel)
     => channels' =
          AfterModeSwitch(channels, fixtures'[last'.arg.fixtureId],
                          FindMode(fixtures'[last'.arg.fixtureId].profile,
                                   last'.arg.modeName))]_vars

\* C27: from the same state, set_mode on the automation server leaves the
\* universe and the registry as fixture:set-mode on the live-client server
\* with the same fixtureId and modeName does.
C27_BothServersSwitchAlike ==
  [][(last'.op = "setMode" /\ last'.arg.server = "automation")
     => /\ channels' = fixtureSetMode(channels, fixtures, last'.arg.fixtureId,
                                      last'.arg.modeName).channels
        /\ fixtures' = fixtureSetMode(channels, fixtures, last'.arg.fixtureId,
                                      last'.arg.modeName).fixtures]_vars

\* The list the specification has setActiveMode return: the mode-select
\* write, omitted when the profile has no modeChannel, then one write per
\* entry of the mode's defaults.
ModeWrites(fixture, mode) ==
  LET keys == channelKeys(fixture.profile) IN
  (IF fixture.profile.modeChannel = NoModeChannel THEN <<>>
   ELSE <<[channel |-> fixture.startAddress
                         + IndexOfKey(keys, fixture.profile.modeChannel),
           value |-> mode.channelValue]>>)
  \o [k \in 1 .. Len(mode.defaults) |->
        [channel |-> fixture.startAddress + IndexOfKey(keys, mode.defaults[k][1]),
         value |-> mode.defaults[k][2]]]

\* C28: setActiveMode(fixtureId, modeName) on a profile fixture with that
\* mode persists activeMode = modeName and returns the mode-select write
\* (when the profile has a modeChannel) followed by one write per default,
\* also for a profile without a modeChannel.
C28_SetActiveModePersistsAndReturnsWrites ==
  (last.op = "setMode" /\ ~last.arg.threw) =>
    LET fixture == fixtures[last.arg.fixtureId]
    IN /\ fixture.activeMode = last.arg.modeName
       /\ last.arg.results =
            ModeWrites(fixture, FindMode(fixture.profile, last.arg.modeName))

\* C28 for the profiles that have a modeChannel.
C28_SetActiveModeWithModeChannel ==
  (/\ last.op = "setMode"
   /\ ~last.arg.threw
   /\ fixtures[last.arg.fixtureId].profile.modeChannel # NoModeChannel) =>
    LET fixture == fixtures[last.arg.fixtureId]
    IN /\ fixture.activeMode = last.arg.modeName
       /\ last.arg.results =
            ModeWrites(fixture, FindMode(fixture.profile, last.arg.modeName))

\* C29: after any sequence of registry operations every profile fixture
\* has as many bindings as its profile has channels, at contiguous addresses
\* from its startAddress in channel-key order, the last one within the
\* universe.
C29_ProfileFixturesContiguous ==
  \A id \in DOMAIN fixtures :
    fixtures[id].profile # NoProfile => Contiguous(fixtures[id])

\* C30: after any sequence of registry operations every fixture with an
\* activeMode has a profile, and the activeMode names a mode of it.
C30_ActiveModeIsProfileMode ==
  \A id \in DOMAIN fixtures :
    fixtures[id].activeMode # NoMode =>
      /\ fixtures[id].profile # NoProfile
      /\ HasMode(fixtures[id].profile, fixtures[id].activeMode)

\* ---------------------------------------------- automation server claims
\* The response a frame is due: the echo of the command's action, "unknown"
\* for a frame that could not be parsed.
Echo(frame) ==
  IF frame.kind = "object" THEN frame.command.action ELSE "unknown"

OneResponse(sent, action) ==
  /\ Len(sent) = 1
  /\ sent[1].status \in {"ok", "error"}
  /\ sent[1].action = action

\* What the last step sent its frame's sender: a handler that returned sent
\* one response echoing the action, a handler that reached its await sent
\* nothing yet and is awaiting, a handler that resumed sent one response
\* (each while the sender's socket is open).
AnsweredOnce ==
  /\ last.op = "message" =>
       IF last.arg.awaits
       THEN /\ last.arg.sent = <<>>
            /\ \E t \in recallTasks :
                 /\ t.action = last.arg.frame.command.action
                 /\ t.promise = nextId - 1
       ELSE last.arg.open => OneResponse(last.arg.sent, Echo(last.arg.frame))
  /\ last.op = "resumed" =>
       /\ last.arg.open => OneResponse(last.arg.sent, last.arg.action)
       /\ \A t \in recallTasks : t.promise # last.arg.promise

\* C23: every inbound automation frame gets exactly one response with
\* status ok or error whose action echoes the frame's action ("unknown" for
\* a frame that cannot be parsed), while the sender stays connected: at once
\* when the handler returns, and for a timed recall or blackout when its
\* handler resumes, which every awaiting handler eventually does (handlers
\* leave recallTasks only by resuming).
C23_EveryFrameAnsweredOnce ==
  /\ []AnsweredOnce
  /\ (recallTasks # {}) ~> (recallTasks = {})

\* C23 witness: a timed recall_preset was answered after its fade ran to
\* its end.
C23_Witness ==
  /\ last.op = "resumed"
  /\ last.arg.action = "recall_preset"
  /\ last.arg.open
  /\ OneResponse(last.arg.sent, "recall_preset")
  /\ last.arg.sent[1].status = "ok"
  /\ now >= 60
  /\ channels = [i \in ChannelIndex |-> IF i = 0 THEN 255 ELSE 0]

\* Whether the step that was just taken sent its sender a response with
\* status error.
AnsweredError ==
  /\ last'.op \in {"message", "resumed"}
  /\ last'.arg.sent # <<>>
  /\ last'.arg.sent[1].status = "error"

\* C24: an automation command answered with status error leaves the
\* universe (channels and master dimmer) and the fixture registry (what
\* FixtureManager.getAll returns) unchanged, notifies no universe listener
\* and sends no event to the automation or the live clients.
C24_ErrorsChangeNothing ==
  [][AnsweredError =>
       /\ channels' = channels
       /\ masterDimmer' = masterDimmer
       /\ getAll(fixtures') = getAll(fixtures)
       /\ delivered' = NoDeliveries
       /\ last'.arg.live = <<>>
       /\ last'.arg.automation = <<>>
       /\ UNCHANGED <<activeFade, intervals, pending, recallTasks>>]_vars

\* C24 witness: set_mode with a mode the profile does not have was answered
\* with an error while the universe held values and a fade was running.
C24_Witness ==
  /\ last.op = "message"
  /\ last.arg.frame.command.action = "set_mode"
  /\ last.arg.frame.command.modeName = "M9"
  /\ last.arg.sent # <<>>
  /\ last.arg.sent[1].status = "error"
  /\ channels[0] # 0
  /\ masterDimmer # 255
  /\ activeFade # 0

\* --------------------------------------------------- preset store claims
InByteRange(x) == x # NaN /\ 0 <= x /\ x <= 2 * 255

\* C31: every stored preset has a channel array of exactly 512 entries
\* (NumChannels here), each in [0, 255].
C31_StoredPresetsAreFullByteArrays ==
  \A k \in 1 .. Len(presets) :
    /\ Len(presets[k].channels) = NumChannels
    /\ \A i \in 1 .. NumChannels : InByteRange(presets[k].channels[i])

\* The part of C31 about create: the stored channels are the input trimmed
\* or zero-padded, and getById returns them.
C31_CreateStoresPaddedInput ==
  last.op = "presetCreate" =>
    /\ HasStoredPreset(presets, last.arg.id)
    /\ LET stored == presetGetById(presets, last.arg.id).channels
           input == last.arg.input
       IN /\ Len(stored) = NumChannels
          /\ \A i \in 1 .. NumChannels :
               stored[i] = IF i <= Len(input) THEN input[i] ELSE 0

\* ------------------------------------------------ channel conflict claims
\* The positions (in visiting order) of the bindings whose address an
\* earlier binding has, and the first binding of an address.
LateBindings(b) ==
  {p \in 1 .. Len(b) : \E q \in 1 .. (p - 1) : b[q].dmxChannel = b[p].dmxChannel}
FirstBinding(b, address) ==
  b[CHOOSE q \in 1 .. Len(b) :
      /\ b[q].dmxChannel = address
      /\ \A r \in 1 .. (q - 1) : b[r].dmxChannel # address]

\* C32: validateChannelConflicts returns one entry per binding whose address
\* an earlier binding claimed, in visiting order, each naming the first
\* owner of the address; their number is the bindings minus the distinct
\* addresses, and the result is empty iff no address occurs twice.
C32_OneConflictPerLateBinding ==
  last.op = "importReplace" =>
    LET b == Bindings(last.arg.array)
        r == last.arg.conflicts
        late == LateBindings(b)
        addresses == {b[p].dmxChannel : p \in 1 .. Len(b)}
    IN /\ Len(r) = Cardinality(late)
       /\ Len(r) = Len(b) - Cardinality(addresses)
       /\ (r = <<>>) <=> (Cardinality(addresses) = Len(b))
       /\ \A j \in 1 .. Len(r) :
            \E p \in late :
              /\ Cardinality({q \in late : q < p}) = j - 1
              /\ r[j].dmxChannel = b[p].dmxChannel
              /\ r[j].fixture = b[p].id
              /\ r[j].binding = b[p].binding
              /\ r[j].owner.id = FirstBinding(b, b[p].dmxChannel).id
              /\ r[j].owner.binding = FirstBinding(b, b[p].dmxChannel).binding

\* C32 witness: one address bound three times, by two fixtures; both
\* reports name the first fixture.
C32_Witness ==
  /\ last.op = "importReplace"
  /\ Len(last.arg.conflicts) = 2
  /\ last.arg.conflicts[1].dmxChannel = last.arg.conflicts[2].dmxChannel
  /\ last.arg.conflicts[1].fixture # last.arg.conflicts[1].owner.id
  /\ last.arg.conflicts[2].owner.id = last.arg.conflicts[1].owner.id

\* The addresses a fixture of an incoming list binds.
Addresses(entry) ==
  {entry.fixture.channels[k] : k \in 1 .. Len(entry.fixture.channels)}

\* The positions of an incoming list a merge import should add: those whose
\* id and addresses are neither in the store before the import nor taken by
\* a fixture added earlier in the import.
IsAddedSet(A, before, incoming) ==
  \A k \in 1 .. Len(incoming) :
    k \in A <=>
      /\ incoming[k].id \notin DOMAIN before
      /\ Addresses(incoming[k]) \cap BoundChannels(before) = {}
      /\ \A j \in A :
           j < k => /\ incoming[j].id # incoming[k].id
                    /\ Addresses(incoming[j]) \cap Addresses(incoming[k]) = {}

\* C34: a merge import adds exactly the incoming fixtures whose id and
\* addresses are free (counting the fixtures added earlier in the import),
\* skips and reports every other one in order, added + skipped is the
\* number of incoming fixtures, and the fixtures present before are as they
\* were read.
C34_MergeAddsWhatIsFree ==
  last.op = "importMerge" =>
    LET before == getAll(last.arg.before)
        incoming == last.arg.incoming
        r == last.arg.result
    IN \E A \in SUBSET (1 .. Len(incoming)) :
         LET skipped == {k \in 1 .. Len(incoming) : k \notin A} IN
         /\ IsAddedSet(A, before, incoming)
         /\ r.added = Cardinality(A)
         /\ r.skipped = Cardinality(skipped)
         /\ r.added + r.skipped = Len(incoming)
         /\ Len(r.conflicts) = r.skipped
         /\ \A j \in 1 .. Len(r.conflicts) :
              \E k \in skipped :
                /\ Cardinality({q \in skipped : q < k}) = j - 1
                /\ r.conflicts[j].id = incoming[k].id
         /\ DOMAIN fixtures = DOMAIN before \cup {incoming[k].id : k \in A}
         /\ \A i \in DOMAIN before : fixtures[i] = before[i]
         /\ \A k \in A : fixtures[incoming[k].id] = incoming[k].fixture

\* C34 witness: a merge into a store with a fixture adds the first incoming
\* fixture and skips the second one, which binds an address of the first.
C34_Witness ==
  /\ last.op = "importMerge"
  /\ DOMAIN last.arg.before # {}
  /\ last.arg.result.added = 1
  /\ last.arg.result.skipped = 1
  /\ Len(last.arg.incoming) = 2
  /\ last.arg.incoming[1].id \in DOMAIN fixtures
  /\ last.arg.incoming[2].id \notin DOMAIN fixtures
  /\ Addresses(last.arg.incoming[2]) \cap BoundChannels(last.arg.before) = {}

\* C40: a merge import into a store without channel conflicts leaves a
\* store without channel conflicts.
C40_MergeIntroducesNoConflict ==
  (last.op = "importMerge" /\ last.arg.conflictsBefore = <<>>)
    => last.arg.conflictsAfter = <<>>

\* C33: createFromProfile throws and leaves the store as it is for an
\* unknown profile id, a startAddress below 1 or a fixture that would end
\* above the last address; otherwise the store has one more fixture, under
\* a fresh id, with the given startAddress and the first mode's name, and
\* the fixtures it had are as they were read.
C33_CreateFromProfileContract ==
  last.op = "createFromProfile" =>
    LET a == last.arg
        invalid ==
          \/ a.profileId \notin DOMAIN bundledProfiles
          \/ a.startAddress < 1
          \/ a.startAddress + bundledProfiles[a.profileId].channelCount - 1
               > NumChannels
    IN /\ a.threw <=> invalid
       /\ a.threw => (a.created = a.before /\ fixtures = a.before)
       /\ ~a.threw =>
            /\ a.id \notin DOMAIN a.before
            /\ DOMAIN a.created = DOMAIN a.before \cup {a.id}
            /\ a.created[a.id].startAddress = a.startAddress
            /\ a.created[a.id].profile = bundledProfiles[a.profileId]
            /\ a.created[a.id].activeMode
                 = bundledProfiles[a.profileId].modes[1].name
            /\ \A i \in DOMAIN a.before : a.created[i] = getAll(a.before)[i]
            /\ \A i \in DOMAIN a.before : fixtures[i] = getAll(a.before)[i]

\* C33 witness: a fixture was created from a profile next to another one.
C33_Witness ==
  /\ last.op = "createFromProfile"
  /\ ~last.arg.threw
  /\ DOMAIN last.arg.before # {}
  /\ Cardinality(DOMAIN fixtures) = Cardinality(DOMAIN last.arg.before) + 1

\* C35: a read replaces the document of every fixture whose profile differs
\* from the bundled one of its fixture name and nothing else, persists only
\* when a document was replaced, and a second read right after it changes
\* nothing and persists nothing.
C35_ReadRefreshesProfilesOnly ==
  last.op = "getAll" =>
    LET before == last.arg.before IN
    /\ DOMAIN fixtures = DOMAIN before
    /\ \A id \in DOMAIN before :
         /\ fixtures[id].startAddress = before[id].startAddress
         /\ fixtures[id].activeMode = before[id].activeMode
         /\ fixtures[id].channels = before[id].channels
         /\ fixtures[id].profile =
              IF id \in Drifted(before)
              THEN findBundledProfileByFixtureName(before[id].profile.fixture)
              ELSE before[id].profile
    /\ last.arg.didUpdate <=> (fixtures # before)
    /\ ~didUpdate(fixtures)
    /\ getAll(fixtures) = fixtures

\* C35 witness: a read replaced a drifted document.
C35_Witness ==
  /\ last.op = "getAll"
  /\ last.arg.didUpdate
  /\ \E id \in DOMAIN fixtures :
       fixtures[id].profile # last.arg.before[id].profile

\* C36: a connecting live client is sent dmx:state, dmx:status,
\* presets:list, fixtures:list and fixtures:profiles in this order, then
\* fixtures:conflicts exactly when some address is bound twice, and the
\* command handlers are registered after all of them.
C36_ConnectionSendsStateFirst ==
  last.op = "connection" =>
    LET sent == last.arg.sent
        bound == Bindings(StoreArray(last.arg.before))
        twice == \E p, q \in 1 .. Len(bound) :
                   p # q /\ bound[p].dmxChannel = bound[q].dmxChannel
    IN /\ SubSeq(sent, 1, 5) = <<"dmx:state", "dmx:status", "presets:list",
                                "fixtures:list", "fixtures:profiles">>
       /\ Len(sent) = IF twice THEN 6 ELSE 5
       /\ twice => sent[6] = "fixtures:conflicts"
       /\ last.arg.handlersAfter = Len(sent)

\* C36 witnesses: a connection to a store with a conflict, and one to a
\* store with fixtures and no conflict.
C36_Witness ==
  /\ last.op = "connection"
  /\ Len(last.arg.sent) = 6
C36_WitnessNoConflict ==
  /\ last.op = "connection"
  /\ Len(last.arg.sent) = 5
  /\ Cardinality(DOMAIN last.arg.before) = 2

\* C37: a connected driver holds an open serial port and has no reconnect
\* attempt pending or in progress, and at most one reconnect timer is
\* pending at any time.
C37_ConnectedHoldsOpenPort ==
  /\ isConnected => (serialPort # 0 /\ ports[serialPort] \in {"open", "closing"})
  /\ isConnected =>
       /\ timers = {}
       /\ \A t \in tasks : t.kind # "reconnect"
  /\ Cardinality(timers) <= 1

\* The parts of C37, one by one.
C37_ConnectedImpliesPortHeld ==
  isConnected => (serialPort # 0 /\ ports[serialPort] \in {"open", "closing"})
C37_NoReconnectWhileConnected ==
  isConnected => (timers = {} /\ \A t \in tasks : t.kind # "reconnect")
C37_AtMostOneTimer == Cardinality(timers) <= 1

\* C38: while an instant blackout is the last command a client sent, every
\* raw channel is 0, whatever fade was in flight when it arrived.
C38_InstantBlackoutStays == blackedOut => channels = Zeros

\* A timed recall has resumed after its fade and announced its preset.
TimedRecallAnnounced(op) ==
  /\ op.op = "recalled"
  /\ op.arg.faded
  /\ \/ \E k \in 1 .. Len(op.arg.live) :
          op.arg.live[k].event = "preset:activated"
     \/ \E k \in 1 .. Len(op.arg.automation) :
          op.arg.automation[k].event = "preset_activated"

\* C39: a timed recall announces its preset (and writes its modes) only
\* when its fade ran to its end: the handler resumes right after the
\* promise is resolved, so the step before the announcement is the fade's
\* completion.
C39_ActivationOnlyWhenReached ==
  [][TimedRecallAnnounced(last') => last.op = "fadeComplete"]_vars
====
